---- MODULE Spec2Model ----
(***************************************************************************)
(* Confidence lifecycle of the ccmem memory store.                         *)
(*                                                                         *)
(* Models update-confidence.py (adjust_confidence, apply_confidence_decay, *)
(* process_pending_feedback) and the candidate filter of                   *)
(* sync-claude-md.py (promote_memories_to_claude_md).                      *)
(*                                                                         *)
(* Numbers.  A confidence is a Python float; it is held here as an integer *)
(* number of thousandths (0.8 is 800), which is the grid round(x, 3) and   *)
(* the literals 0.1, 0.2, 0.3 of the code keep it on.  The decay product   *)
(* old * 0.99^days * (0.5 + 0.5 * ratio) is an exact fraction              *)
(* RawNum / RawDen of thousandths; every comparison the code makes on it   *)
(* is made by cross-multiplication.  Where the exact value sits on the     *)
(* boundary of a comparison or half-way between two thousandths, the       *)
(* float result depends on representation error, and the model takes       *)
(* either outcome (the fp argument of process_memory).                     *)
(*                                                                         *)
(* Time.  The clock counts ticks, TicksPerDay of them in a day, so that    *)
(* timedelta.days (whole days) can be less than the elapsed time.          *)
(***************************************************************************)
EXTENDS Integers, Sequences, FiniteSets, TLC

VARIABLES
    memories,        \* memory id -> metadata of the record file
    index,           \* memory id -> index entry (confidence, last_accessed, access_count)
    min_confidence,  \* config["settings"]["min_confidence"], thousandths
    now,             \* datetime.utcnow(), in ticks
    nops,            \* number of calls made so far that write the store
    last,            \* the last operation: its name, arguments and return value
    stats,           \* the statistics the last decay pass returned
    selected,        \* the ids the last selection returned
    log,             \* feedback.jsonl: the sequence of feedback entries
    watermark,       \* .feedback_processed: NoMarker, or the timestamp written
    applied,         \* per log entry, how many times adjust_confidence returned True for it
    failed,          \* per log entry, how many times it was counted as an error
    fbstats,         \* the statistics the last process_pending_feedback returned
    buckets,         \* index["memories"]: the global list and the list of each project bucket
    doc,             \* CLAUDE.md: the lines of its text (text.split('\n')), or NoFile
    docop,           \* the last call made on the document: its name, arguments and input
    dup,             \* the last check_duplicate call: its arguments and its result
    wf,              \* the promotion workflow: the run in progress and its position
    archive,         \* the archive events archive_memory recorded, oldest first
    decisions        \* the decision log log_claude_md_decision appended to, oldest first

vars == <<memories, index, min_confidence, now, nops, last, stats, selected,
          log, watermark, applied, failed, fbstats,
          buckets, doc, docop, dup, wf, archive, decisions>>
docvars == <<doc, docop>>
wfvars == <<wf, archive, decisions>>
extvars == <<buckets, doc, docop, dup, wf, archive, decisions>>

confvars == <<memories, index, min_confidence, now, nops, stats, selected>>
fbvars == <<log, watermark, applied, failed, fbstats>>

-----------------------------------------------------------------------------
(* Bounds of the model *)

MaxTime == 3         \* the clock stops after this many ticks
MaxOps == 3          \* number of calls that write the store (adjust, decay)
MaxLog == 2         \* length of the feedback log
MaxTs == 2          \* largest timestamp of a feedback entry

(* Program constants, in thousandths unless said otherwise *)

TicksPerDay == 2            \* resolution of the clock against timedelta.days
ONE == 1000                 \* 1.0
ACCEPT_BOOST == 100         \* + 0.1
REJECT_DROP == 200          \* - 0.2
ADJUST_FLOOR == 100         \* max(0.1, ...)
REVIEW_BELOW == 300         \* < 0.3
DECAY_BASE == 99            \* 0.99, in hundredths
DECAY_EPS == 1              \* 0.001
AUTO_PROMOTE_THRESHOLD == 800
MIN_POSITIVE_RATIO == 70    \* 0.7, in hundredths
NEUTRAL_RATIO == 50         \* 0.5, in hundredths

NoTime == -1                \* last_accessed absent
NoMarker == -1              \* the marker file does not exist

Ids == {"m1"}         \* the records of the store
UnknownId == "mX"           \* an id load_memory finds no record for
Statuses == {"active", "under_review", "archived", "superseded"}
Outcomes == {"accepted", "rejected", "superseded"}
Deltas == {0 - 200, 0, 100}
Floors == {100, 200}

Min(a, b) == IF a < b THEN a ELSE b
Max(a, b) == IF a > b THEN a ELSE b
Abs(a) == IF a < 0 THEN 0 - a ELSE a

RECURSIVE Pow(_, _)
Pow(b, n) == IF n = 0 THEN 1 ELSE b * Pow(b, n - 1)

NoOp ==
    [op |-> "init", id |-> "", outcome |-> "", delta |-> 0, dry |-> FALSE, ok |-> TRUE,
     throws |-> {}]
NoStats == [processed |-> 0, decayed |-> 0, archived |-> 0, unchanged |-> 0]
NoFbStats == [processed |-> 0, errors |-> 0]

\* the values of the variables a specification does not use
NoFile == <<>>
NoBuckets == [global |-> <<>>, projects |-> <<>>]
NoDocOp == [op |-> "init"]
NoDup == [op |-> "init"]
NoRun == [pc |-> "idle"]

ConfIdle ==
    /\ min_confidence = ADJUST_FLOOR
    /\ memories = <<>>
    /\ index = <<>>
    /\ now = 0
    /\ nops = 0
    /\ last = NoOp
    /\ stats = NoStats
    /\ selected = {}

FbIdle ==
    /\ log = <<>>
    /\ watermark = NoMarker
    /\ applied = <<>>
    /\ failed = <<>>
    /\ fbstats = NoFbStats

ExtIdle ==
    /\ buckets = NoBuckets
    /\ doc = NoFile
    /\ docop = NoDocOp
    /\ dup = NoDup
    /\ wf = NoRun
    /\ archive = <<>>
    /\ decisions = <<>>

-----------------------------------------------------------------------------
(* adjust_confidence *)

\* the outcome rule with the accepted boost not capped at 1.0
ApplyOutcome_Uncapped(m, outcome) ==
    CASE outcome = "accepted" ->
            [m EXCEPT !.confidence = @ + ACCEPT_BOOST,
                      !.positive_reinforcement = @ + 1]
      [] outcome = "rejected" ->
            LET c == Max(ADJUST_FLOOR, m.confidence - REJECT_DROP)
            IN  [m EXCEPT !.confidence = c,
                          !.negative_reinforcement = @ + 1,
                          !.status = IF c < REVIEW_BELOW THEN "under_review" ELSE @]
      [] outcome = "superseded" ->
            [m EXCEPT !.status = "superseded"]
      [] OTHER -> m

\* the outcome rule with the review test made on <= 0.3
ApplyOutcome_ReviewAtThreshold(m, outcome) ==
    CASE outcome = "accepted" ->
            [m EXCEPT !.confidence = Min(ONE, @ + ACCEPT_BOOST),
                      !.positive_reinforcement = @ + 1]
      [] outcome = "rejected" ->
            LET c == Max(ADJUST_FLOOR, m.confidence - REJECT_DROP)
            IN  [m EXCEPT !.confidence = c,
                          !.negative_reinforcement = @ + 1,
                          !.status = IF c <= REVIEW_BELOW THEN "under_review" ELSE @]
      [] outcome = "superseded" ->
            [m EXCEPT !.status = "superseded"]
      [] OTHER -> m

\* the outcome rule with superseded counted as a rejection as well
ApplyOutcome_SupersededRejects(m, outcome) ==
    CASE outcome = "accepted" ->
            [m EXCEPT !.confidence = Min(ONE, @ + ACCEPT_BOOST),
                      !.positive_reinforcement = @ + 1]
      [] outcome = "rejected" ->
            LET c == Max(ADJUST_FLOOR, m.confidence - REJECT_DROP)
            IN  [m EXCEPT !.confidence = c,
                          !.negative_reinforcement = @ + 1,
                          !.status = IF c < REVIEW_BELOW THEN "under_review" ELSE @]
      [] outcome = "superseded" ->
            [m EXCEPT !.status = "superseded",
                      !.negative_reinforcement = @ + 1]
      [] OTHER -> m

\* lines 42-62: the outcome rule
ApplyOutcome(m, outcome) ==
    CASE outcome = "accepted" ->
            [m EXCEPT !.confidence = Min(ONE, @ + ACCEPT_BOOST),
                      !.positive_reinforcement = @ + 1]
      [] outcome = "rejected" ->
            LET c == Max(ADJUST_FLOOR, m.confidence - REJECT_DROP)
            IN  [m EXCEPT !.confidence = c,
                          !.negative_reinforcement = @ + 1,
                          !.status = IF c < REVIEW_BELOW THEN "under_review" ELSE @]
      [] outcome = "superseded" ->
            [m EXCEPT !.status = "superseded"]
      [] OTHER -> m

\* lines 64-67: the explicit delta, applied after the outcome rule
ApplyDelta(m, delta) ==
    IF delta # 0
    THEN [m EXCEPT !.confidence = Min(ONE, Max(ADJUST_FLOOR, @ + delta))]
    ELSE m

\* access tracking that stamps the access and does not count it
TrackAccess_StampOnly(m, t) ==
    [m EXCEPT !.last_accessed = t]

\* access tracking that counts the access and keeps the old last_accessed
TrackAccess_CountOnly(m, t) ==
    [m EXCEPT !.access_count = @ + 1]

\* lines 69-71: access tracking
TrackAccess(m, t) ==
    [m EXCEPT !.last_accessed = t, !.access_count = @ + 1]

\* lines 40-71: the metadata adjust_confidence writes back
AdjustedMeta(m, outcome, delta, t) ==
    TrackAccess(ApplyDelta(ApplyOutcome(m, outcome), delta), t)

\* lines 85-91: the index entry of the record
EntryOf(m) ==
    [confidence |-> m.confidence, last_accessed |-> m.last_accessed,
     access_count |-> m.access_count]

\* lines 35-38: load_memory found no record
AdjustUnknown(outcome, delta) ==
    /\ last' = [op |-> "adjust", id |-> UnknownId, outcome |-> outcome,
                delta |-> delta, dry |-> FALSE, ok |-> FALSE, throws |-> {}]
    /\ stats' = NoStats
    /\ selected' = {}
    /\ UNCHANGED <<memories, index, min_confidence, now, nops, fbvars>>

\* lines 23-106
AdjustConfidence(id, outcome, delta) ==
    /\ nops < MaxOps
    /\ LET m == AdjustedMeta(memories[id], outcome, delta, now)
       IN  /\ memories' = [memories EXCEPT ![id] = m]
           /\ index' = [index EXCEPT ![id] = EntryOf(m)]
    /\ last' = [op |-> "adjust", id |-> id, outcome |-> outcome,
                delta |-> delta, dry |-> FALSE, ok |-> TRUE, throws |-> {}]
    /\ nops' = nops + 1
    /\ stats' = NoStats
    /\ selected' = {}
    /\ UNCHANGED <<min_confidence, now, fbvars>>

Adjust ==
    \E outcome \in Outcomes, delta \in Deltas :
        \/ \E id \in Ids : AdjustConfidence(id, outcome, delta)
        \/ AdjustUnknown(outcome, delta)

-----------------------------------------------------------------------------
(* apply_confidence_decay *)

\* lines 148-152: whole days since last_accessed, or created_at when it is absent
DaysSinceAccess(m, t) ==
    LET ref == IF m.last_accessed # NoTime THEN m.last_accessed ELSE m.created_at
    IN  (t - ref) \div TicksPerDay

\* lines 143-158: the record is neither retired nor accessed within the last day
Decays(m, t) ==
    /\ m.status \notin {"archived", "superseded"}
    /\ DaysSinceAccess(m, t) >= 1

\* lines 160-172: decay_factor as the fraction FactorNum / FactorDen.
\* 0.99^days, scaled by 0.5 + 0.5 * positive / total = (total + positive) / (2 * total)
\* when total > 0, and not scaled when total = 0
FactorNum(m, t) ==
    LET base == Pow(DECAY_BASE, DaysSinceAccess(m, t))
        total == m.access_count
    IN  IF total > 0 THEN base * (total + m.positive_reinforcement) ELSE base

FactorDen(m, t) ==
    LET base == Pow(100, DaysSinceAccess(m, t))
        total == m.access_count
    IN  IF total > 0 THEN base * 2 * total ELSE base

\* lines 174-175: old_confidence * decay_factor = RawNum / RawDen thousandths
RawNum(m, t) == m.confidence * FactorNum(m, t)
RawDen(m, t) == FactorDen(m, t)

\* line 178 and line 187: max(min_confidence, new_confidence) is min_confidence
AtFloor(m, t, floor) == RawNum(m, t) <= floor * RawDen(m, t)

\* line 180: abs(new_confidence - old_confidence) > 0.001; fp decides the exact boundary
Changed(m, t, floor, fp) ==
    LET old == m.confidence
        n == RawNum(m, t)
        d == RawDen(m, t)
    IN  IF AtFloor(m, t, floor)
        THEN \/ Abs(floor - old) > DECAY_EPS
             \/ Abs(floor - old) = DECAY_EPS /\ fp
        ELSE \/ n < (old - DECAY_EPS) * d
             \/ n > (old + DECAY_EPS) * d
             \/ n \in {(old - DECAY_EPS) * d, (old + DECAY_EPS) * d} /\ fp

\* line 184: round(new_confidence, 3); fp decides a value half-way between two thousandths
Rounded(m, t, floor, fp) ==
    LET n == RawNum(m, t)
        d == RawDen(m, t)
        up == (2 * n + d) \div (2 * d)
        tie == (2 * n + d) % (2 * d) = 0
    IN  IF AtFloor(m, t, floor) THEN floor
        ELSE IF tie /\ ~fp THEN up - 1 ELSE up

\* process_memory stamping the record it decays as accessed
ProcessMemory_TouchAccess(m, t, floor, dry, fp) ==
    IF Decays(m, t) /\ Changed(m, t, floor, fp) /\ ~dry
    THEN [m EXCEPT !.confidence = Rounded(m, t, floor, fp),
                   !.status = IF AtFloor(m, t, floor) THEN "archived" ELSE @,
                   !.last_accessed = t]
    ELSE m

\* process_memory archiving only strictly below the floor
ProcessMemory_ArchiveBelowFloor(m, t, floor, dry, fp) ==
    IF Decays(m, t) /\ Changed(m, t, floor, fp) /\ ~dry
    THEN [m EXCEPT !.confidence = Rounded(m, t, floor, fp),
                   !.status = IF Rounded(m, t, floor, fp) < floor THEN "archived" ELSE @]
    ELSE m

\* process_memory with the dry_run flag ignored
ProcessMemory_IgnoreDryRun(m, t, floor, dry, fp) ==
    IF Decays(m, t) /\ Changed(m, t, floor, fp)
    THEN [m EXCEPT !.confidence = Rounded(m, t, floor, fp),
                   !.status = IF AtFloor(m, t, floor) THEN "archived" ELSE @]
    ELSE m

\* lines 135-208: the metadata process_memory leaves in the record file
ProcessMemory(m, t, floor, dry, fp) ==
    IF Decays(m, t) /\ Changed(m, t, floor, fp) /\ ~dry
    THEN [m EXCEPT !.confidence = Rounded(m, t, floor, fp),
                   !.status = IF AtFloor(m, t, floor) THEN "archived" ELSE @]
    ELSE m

\* lines 126-131, 140, 145, 157, 181, 189, 208: the statistics of a pass
DecayStats(mems, t, floor, dry, fp) ==
    LET dec == {id \in DOMAIN mems : Decays(mems[id], t) /\ Changed(mems[id], t, floor, fp[id])}
        arc == {id \in dec : ~dry /\ AtFloor(mems[id], t, floor)}
    IN  [processed |-> Cardinality(DOMAIN mems),
         decayed |-> Cardinality(dec),
         archived |-> Cardinality(arc),
         unchanged |-> Cardinality(DOMAIN mems \ dec)]

\* lines 109-222
ApplyConfidenceDecay(dry, fp) ==
    /\ dry \/ nops < MaxOps
    /\ LET new == [id \in Ids |->
                     ProcessMemory(memories[id], now, min_confidence, dry, fp[id])]
       IN  /\ memories' = new
           /\ index' = [id \in Ids |->
                          IF new[id] # memories[id]
                          THEN [index[id] EXCEPT !.confidence = new[id].confidence]
                          ELSE index[id]]
    /\ stats' = DecayStats(memories, now, min_confidence, dry, fp)
    /\ nops' = IF dry THEN nops ELSE nops + 1
    /\ last' = [op |-> "decay", id |-> "", outcome |-> "", delta |-> 0,
                dry |-> dry, ok |-> TRUE, throws |-> {}]
    /\ selected' = {}
    /\ UNCHANGED <<min_confidence, now, fbvars>>

Decay == \E dry \in BOOLEAN, fp \in [Ids -> BOOLEAN] : ApplyConfidenceDecay(dry, fp)

-----------------------------------------------------------------------------
(* Candidate selection *)

\* list_memories(min_confidence = ...): the records at or above the confidence gate
ListMemories(mems, minc) == {id \in DOMAIN mems : mems[id].confidence >= minc}

\* sync-claude-md.py lines 198-206: positive_ratio, in hundredths rounded down
\* (a whole number of hundredths is reached by the ratio exactly when it is
\* reached by the ratio rounded down)
PositiveRatio(m) ==
    LET total == m.positive_reinforcement + m.negative_reinforcement
    IN  IF total = 0 THEN NEUTRAL_RATIO
        ELSE (100 * m.positive_reinforcement) \div total

\* the filter without the status test
Promotable_AnyStatus(m) ==
    PositiveRatio(m) >= MIN_POSITIVE_RATIO

\* sync-claude-md.py line 208
Promotable(m) ==
    /\ PositiveRatio(m) >= MIN_POSITIVE_RATIO
    /\ m.status = "active"

\* the candidate list without the confidence gate of list_memories
Candidates_NoConfidenceGate(mems) ==
    {id \in DOMAIN mems : Promotable(mems[id])}

\* sync-claude-md.py lines 188-209
Candidates(mems) ==
    {id \in ListMemories(mems, AUTO_PROMOTE_THRESHOLD) : Promotable(mems[id])}

Select ==
    /\ selected' = Candidates(memories)
    /\ last' = [op |-> "select", id |-> "", outcome |-> "", delta |-> 0,
                dry |-> FALSE, ok |-> TRUE, throws |-> {}]
    /\ stats' = NoStats
    /\ UNCHANGED <<memories, index, min_confidence, now, nops, fbvars>>

-----------------------------------------------------------------------------
(* The clock *)

Tick ==
    /\ now < MaxTime
    /\ now' = now + 1
    /\ last' = [op |-> "tick", id |-> "", outcome |-> "", delta |-> 0,
                dry |-> FALSE, ok |-> TRUE, throws |-> {}]
    /\ stats' = NoStats
    /\ selected' = {}
    /\ UNCHANGED <<memories, index, min_confidence, nops, fbvars>>

-----------------------------------------------------------------------------
(* The confidence engine: records under adjust, decay, selection and time *)

InitConfidences == {200, 500, 900}

NewMemory(c) ==
    [confidence |-> c, status |-> "active",
     positive_reinforcement |-> 0, negative_reinforcement |-> 0,
     access_count |-> 0, last_accessed |-> NoTime, created_at |-> 0]

Init ==
    /\ min_confidence \in Floors
    /\ memories \in [Ids -> {NewMemory(c) : c \in {x \in InitConfidences : x >= min_confidence}}]
    /\ index = [id \in Ids |-> EntryOf(memories[id])]
    /\ now = 0
    /\ nops = 0
    /\ last = NoOp
    /\ stats = NoStats
    /\ selected = {}
    /\ log = <<>>
    /\ watermark = NoMarker
    /\ applied = <<>>
    /\ failed = <<>>
    /\ fbstats = NoFbStats
    /\ ExtIdle

Next ==
    \/ Adjust /\ UNCHANGED extvars
    \/ Decay /\ UNCHANGED extvars
    \/ Select /\ UNCHANGED extvars
    \/ Tick /\ UNCHANGED extvars

Spec == Init /\ [][Next]_vars

-----------------------------------------------------------------------------
(* process_pending_feedback *)

FeedbackIds == Ids \cup {UnknownId}

\* a line of feedback.jsonl; timestamp 0 is an entry with no "timestamp" key, which
\* entry.get("timestamp", "") reads as the empty string
Entries == [timestamp : 0..MaxTs, memory_id : FeedbackIds, outcome : {"accepted", "rejected"}]

\* lines 246-248 and 262: the marker holds a non-empty string
MarkerSet(wm) == wm # NoMarker /\ wm # 0

\* entries_to_process with the watermark test turned round
Pending_AboveSkipped(lg, wm) ==
    {i \in 1..Len(lg) : ~(MarkerSet(wm) /\ lg[i].timestamp >= wm)}

\* entries_to_process with the watermark test made on <
Pending_StrictlyBelow(lg, wm) ==
    {i \in 1..Len(lg) : ~(MarkerSet(wm) /\ lg[i].timestamp < wm)}

\* lines 250-268: entries_to_process, as positions of the log
Pending(lg, wm) ==
    {i \in 1..Len(lg) : ~(MarkerSet(wm) /\ lg[i].timestamp <= wm)}

\* the entries applied by a loop that is left at the first entry adjust_confidence
\* fails on
Succeeded_StopAtFirstFailure(lg, wm, mems, throws) ==
    {i \in Pending(lg, wm) :
        \A j \in Pending(lg, wm) :
            j <= i => (lg[j].memory_id \in DOMAIN mems /\ j \notin throws)}

\* lines 287-315: the entries adjust_confidence returns True for; throws are the
\* positions where it raises before writing anything
Succeeded(lg, wm, mems, throws) ==
    {i \in Pending(lg, wm) : lg[i].memory_id \in DOMAIN mems /\ i \notin throws}

\* lines 276-315: the records after the loop over entries_to_process, from position i on
RECURSIVE FeedbackLoop(_, _, _, _, _)
FeedbackLoop(mems, lg, done, i, t) ==
    IF i > Len(lg) THEN mems
    ELSE LET e == lg[i]
             next == IF i \in done
                     THEN [mems EXCEPT ![e.memory_id] = AdjustedMeta(@, e.outcome, 0, t)]
                     ELSE mems
         IN  FeedbackLoop(next, lg, done, i + 1, t)

\* lines 317-321: the timestamp written to the marker
MaxTimestamp(lg, pend) ==
    CHOOSE x \in {lg[i].timestamp : i \in pend} :
        \A y \in {lg[i].timestamp : i \in pend} : y <= x

\* lines 225-323
ProcessPendingFeedback(throws) ==
    LET pend == Pending(log, watermark)
        done == Succeeded(log, watermark, memories, throws)
    IN  /\ throws \subseteq pend
        /\ IF pend = {}
           THEN /\ fbstats' = NoFbStats
                /\ UNCHANGED <<memories, index, watermark, applied, failed, nops>>
           ELSE /\ nops < MaxOps
                /\ nops' = nops + 1
                /\ memories' = FeedbackLoop(memories, log, done, 1, now)
                /\ index' = [id \in Ids |->
                               IF \E i \in done : log[i].memory_id = id
                               THEN EntryOf(memories'[id]) ELSE index[id]]
                /\ applied' = [i \in 1..Len(log) |->
                                 IF i \in done THEN applied[i] + 1 ELSE applied[i]]
                /\ failed' = [i \in 1..Len(log) |->
                                IF i \in pend \ done THEN failed[i] + 1 ELSE failed[i]]
                /\ fbstats' = [processed |-> Cardinality(done),
                               errors |-> Cardinality(pend \ done)]
                /\ watermark' = MaxTimestamp(log, pend)
        /\ last' = [op |-> "feedback", id |-> "", outcome |-> "", delta |-> 0,
                    dry |-> FALSE, ok |-> TRUE, throws |-> throws]
        /\ stats' = NoStats
        /\ selected' = {}
        /\ UNCHANGED <<min_confidence, now, log>>

ProcessFeedback == \E throws \in SUBSET (1..Len(log)) : ProcessPendingFeedback(throws)

\* a feedback producer appends a line to feedback.jsonl
AppendFeedback ==
    /\ Len(log) < MaxLog
    /\ \E e \in Entries :
         /\ log' = Append(log, e)
         /\ applied' = Append(applied, 0)
         /\ failed' = Append(failed, 0)
    /\ last' = [op |-> "append", id |-> "", outcome |-> "", delta |-> 0,
                dry |-> FALSE, ok |-> TRUE, throws |-> {}]
    /\ stats' = NoStats
    /\ selected' = {}
    /\ UNCHANGED <<memories, index, min_confidence, now, nops, watermark, fbstats>>

(* The feedback log: appends and processing runs, over one record *)

InitFb ==
    /\ min_confidence = 100
    /\ memories = [id \in Ids |-> NewMemory(500)]
    /\ index = [id \in Ids |-> EntryOf(memories[id])]
    /\ now = 0
    /\ nops = 0
    /\ last = NoOp
    /\ stats = NoStats
    /\ selected = {}
    /\ log = <<>>
    /\ watermark = NoMarker
    /\ applied = <<>>
    /\ failed = <<>>
    /\ fbstats = NoFbStats
    /\ ExtIdle

NextFb ==
    \/ AppendFeedback /\ UNCHANGED extvars
    \/ ProcessFeedback /\ UNCHANGED extvars

SpecFb == InitFb /\ [][NextFb]_vars

-----------------------------------------------------------------------------
(* The candidate filter over records with any feedback history *)

MaxPositive == 8     \* largest positive_reinforcement of a record drawn
MaxNegative == 1     \* largest negative_reinforcement of a record drawn

SelConfidences == {700, 750, 799, 800, 900}

\* the records selection is run on: any status, any counts, access_count the
\* number of adjust calls that produced the counts
SelRecords ==
    {[NewMemory(c) EXCEPT !.status = s,
                          !.positive_reinforcement = p,
                          !.negative_reinforcement = n,
                          !.access_count = p + n] :
        c \in SelConfidences, s \in Statuses, p \in 0..MaxPositive, n \in 0..MaxNegative}

InitSel ==
    /\ min_confidence = ADJUST_FLOOR
    /\ memories \in [Ids -> SelRecords]
    /\ index = [id \in Ids |-> EntryOf(memories[id])]
    /\ now = 0
    /\ nops = 0
    /\ last = NoOp
    /\ stats = NoStats
    /\ selected = {}
    /\ FbIdle
    /\ ExtIdle

NextSel ==
    \/ Select /\ UNCHANGED extvars

SpecSel == InitSel /\ [][NextSel]_vars

-----------------------------------------------------------------------------
(* The index file: a global list and one list per project bucket *)

NumProjects == 2     \* number of project buckets of the index
MaxIdxOps == 2       \* number of calls that write a store of several records

IdxIds == {"r1", "r2"}

\* the summary of a record kept in the index
IndexEntry(id, m) ==
    [id |-> id, confidence |-> m.confidence, last_accessed |-> m.last_accessed,
     access_count |-> m.access_count]

\* position of the first entry of a list with this id, 0 when there is none
FirstAt(lst, id) ==
    IF \E i \in 1..Len(lst) : lst[i].id = id
    THEN CHOOSE i \in 1..Len(lst) :
            /\ lst[i].id = id
            /\ \A j \in 1..(i - 1) : lst[j].id # id
    ELSE 0

\* update-confidence.py lines 86-91 and 96-101: the first entry with this id is
\* overwritten, and the loop over the list is left
UpdateFirst(lst, id, m) ==
    IF FirstAt(lst, id) = 0 THEN lst
    ELSE [lst EXCEPT ![FirstAt(lst, id)] = IndexEntry(id, m)]

\* the index update searching the global list only
UpdateIndex_GlobalOnly(ix, id, m) ==
    [ix EXCEPT !.global = UpdateFirst(@, id, m)]

\* update-confidence.py lines 81-105: the global list first, then the project
\* buckets in order, stopping at the first bucket that lists the id
UpdateIndex(ix, id, m) ==
    IF FirstAt(ix.global, id) # 0
    THEN [ix EXCEPT !.global = UpdateFirst(@, id, m)]
    ELSE IF \E k \in 1..Len(ix.projects) : FirstAt(ix.projects[k], id) # 0
         THEN LET k == CHOOSE k \in 1..Len(ix.projects) :
                          /\ FirstAt(ix.projects[k], id) # 0
                          /\ \A j \in 1..(k - 1) : FirstAt(ix.projects[j], id) = 0
              IN  [ix EXCEPT !.projects[k] = UpdateFirst(@, id, m)]
         ELSE ix

\* update-confidence.py lines 203, 210-217: every entry whose record the pass
\* rewrote takes the record's new confidence
DecayList(lst, old, new) ==
    [i \in 1..Len(lst) |->
        IF new[lst[i].id] # old[lst[i].id]
        THEN [lst[i] EXCEPT !.confidence = new[lst[i].id].confidence]
        ELSE lst[i]]

DecayIndex(ix, old, new) ==
    [global |-> DecayList(ix.global, old, new),
     projects |-> [k \in 1..Len(ix.projects) |-> DecayList(ix.projects[k], old, new)]]

\* update-confidence.py lines 23-106, on a store with several records
AdjustIndexed(id, outcome, delta) ==
    /\ nops < MaxIdxOps
    /\ LET m == AdjustedMeta(memories[id], outcome, delta, now)
       IN  /\ memories' = [memories EXCEPT ![id] = m]
           /\ buckets' = UpdateIndex(buckets, id, m)
    /\ last' = [op |-> "adjust", id |-> id, outcome |-> outcome,
                delta |-> delta, dry |-> FALSE, ok |-> TRUE, throws |-> {}]
    /\ nops' = nops + 1
    /\ stats' = NoStats
    /\ UNCHANGED <<index, selected, min_confidence, now, fbvars, docvars, dup, wfvars>>

\* update-confidence.py lines 109-222, on a store with several records
DecayIndexed(dry, fp) ==
    /\ dry \/ nops < MaxIdxOps
    /\ LET new == [id \in IdxIds |->
                     ProcessMemory(memories[id], now, min_confidence, dry, fp[id])]
       IN  /\ memories' = new
           /\ buckets' = DecayIndex(buckets, memories, new)
    /\ stats' = DecayStats(memories, now, min_confidence, dry, fp)
    /\ nops' = IF dry THEN nops ELSE nops + 1
    /\ last' = [op |-> "decay", id |-> "", outcome |-> "", delta |-> 0,
                dry |-> dry, ok |-> TRUE, throws |-> {}]
    /\ UNCHANGED <<index, selected, min_confidence, now, fbvars, docvars, dup, wfvars>>

\* the ids a bucket lists, in the order the records were created
ListOf(ids) ==
    IF ids = {} THEN <<>>
    ELSE IF ids = IdxIds THEN <<"r1", "r2">>
    ELSE <<CHOOSE id \in ids : TRUE>>

\* every record is listed once: in the global list (place 0) or in the bucket
\* of its project
InitIdx ==
    /\ min_confidence = ADJUST_FLOOR
    /\ memories = [id \in IdxIds |-> NewMemory(900)]
    /\ \E place \in {f \in [IdxIds -> 0..NumProjects] : f["r1"] <= f["r2"]} :
          LET lst(k) == [i \in 1..Len(ListOf({id \in IdxIds : place[id] = k})) |->
                           IndexEntry(ListOf({id \in IdxIds : place[id] = k})[i],
                                      memories[ListOf({id \in IdxIds : place[id] = k})[i]])]
          IN  buckets = [global |-> lst(0),
                         projects |-> [k \in 1..NumProjects |-> lst(k)]]
    /\ index = <<>>
    /\ now = 0
    /\ nops = 0
    /\ last = NoOp
    /\ stats = NoStats
    /\ selected = {}
    /\ FbIdle
    /\ doc = NoFile
    /\ docop = NoDocOp
    /\ dup = NoDup
    /\ wf = NoRun
    /\ archive = <<>>
    /\ decisions = <<>>

NextIdx ==
    \/ \E id \in IdxIds, outcome \in Outcomes :
          AdjustIndexed(id, outcome, 0)
    \/ \E outcome \in Outcomes :
          AdjustUnknown(outcome, 0) /\ UNCHANGED extvars
    \/ \E dry \in BOOLEAN, fp \in [IdxIds -> BOOLEAN] : DecayIndexed(dry, fp)
    \/ Tick /\ UNCHANGED extvars

SpecIdx == InitIdx /\ [][NextIdx]_vars

-----------------------------------------------------------------------------
(* The document: CLAUDE.md as the list of its lines *)

(***************************************************************************)
(* A text is held as text.split('\n'): a non-empty sequence of lines, the  *)
(* last one empty when the text ends with a newline.  A line is one of a   *)
(* small alphabet: an empty line, a line of prose, a heading of 1 to 3 #   *)
(* with its title, the bullet "- **title**" of an entry, an indented       *)
(* detail bullet of an entry, and the line "#2, title".  Whitespace inside *)
(* a line is not modelled.                                                 *)
(***************************************************************************)
MaxDocLen == 3       \* number of lines of the document a call starts from
MaxAdds == 1         \* number of add_to_claude_md calls on one document

Blank == [k |-> "blank", level |-> 0, title |-> ""]
Prose == [k |-> "prose", level |-> 0, title |-> ""]
Detail == [k |-> "detail", level |-> 0, title |-> ""]
Heading(level, title) == [k |-> "h", level |-> level, title |-> title]
Bullet(title) == [k |-> "bullet", level |-> 0, title |-> title]
Hash2Comma(title) == [k |-> "hash2comma", level |-> 0, title |-> title]

\* promote-workflow.py lines 293-294
type_order ==
    <<"Preferences", "Patterns & Conventions", "Workflows",
      "Project-Specific", "Learned Corrections", "Avoid">>

MemTypes == {"preference", "pattern", "workflow", "unknown"}

\* promote-workflow.py lines 356-364
SectionOf(type) ==
    CASE type = "preference" -> "Preferences"
      [] type = "pattern" -> "Patterns & Conventions"
      [] type = "workflow" -> "Workflows"
      [] type = "project" -> "Project-Specific"
      [] type = "correction" -> "Learned Corrections"
      [] type = "negative" -> "Avoid"
      [] OTHER -> "General"

\* the lines a hand-edited document is made of
DocLines ==
    {Blank, Prose, Bullet("A"), Heading(1, "Notes"), Heading(3, "Sub"),
     Heading(2, "Preferences"), Heading(2, "Patterns & Conventions"),
     Heading(2, "Workflows"), Hash2Comma("Preferences")}

Docs == UNION {[1..n -> DocLines] : n \in 1..MaxDocLen}

\* promote-workflow.py lines 222-238: the entry of a memory with a title and a
\* description
format_memory_entry(title) == <<Bullet(title), Detail>>

\* str.rstrip() and str.strip(), on lines: empty lines are dropped at the end
\* (and at the start); the empty text is the single empty line
RECURSIVE Rstrip(_)
Rstrip(d) ==
    IF Len(d) = 0 THEN <<Blank>>
    ELSE IF d[Len(d)] = Blank THEN Rstrip(SubSeq(d, 1, Len(d) - 1))
    ELSE d

RECURSIVE Lstrip(_)
Lstrip(d) ==
    IF Len(d) = 0 THEN <<Blank>>
    ELSE IF d[1] = Blank THEN Lstrip(SubSeq(d, 2, Len(d)))
    ELSE d

Strip(d) == Lstrip(Rstrip(d))

\* promote-workflow.py lines 243 and 257: ^##\s+name\s*$
IsHeader(line, name) == line.k = "h" /\ line.level = 2 /\ line.title = name

\* promote-workflow.py lines 265-266 and 327-328: ^(#{2,})\s+ with at most
\* level # (a heading of one # does not match)
EndsSection(line, level) == line.k = "h" /\ line.level >= 2 /\ line.level <= level

\* promote-workflow.py lines 241-244
section_exists(d, name) == \E i \in 1..Len(d) : IsHeader(d[i], name)

\* promote-workflow.py lines 255-280: the loop over the lines from line i on,
\* result being the lines put out so far
RECURSIVE InsertLoop(_, _, _, _, _, _, _)
InsertLoop(d, name, entry, i, in_target_section, inserted, result) ==
    IF i > Len(d)
    THEN IF in_target_section /\ ~inserted
         THEN result \o <<Blank>> \o entry
         ELSE result
    ELSE IF IsHeader(d[i], name)
    THEN InsertLoop(d, name, entry, i + 1, TRUE, inserted, Append(result, d[i]))
    ELSE IF in_target_section /\ ~inserted /\ EndsSection(d[i], 2)
    THEN InsertLoop(d, name, entry, i + 1, FALSE, TRUE,
                    result \o entry \o <<Blank, d[i]>>)
    ELSE InsertLoop(d, name, entry, i + 1, in_target_section, inserted,
                    Append(result, d[i]))

\* promote-workflow.py lines 247-280
insert_into_section(d, name, entry) ==
    InsertLoop(d, name, entry, 1, FALSE, FALSE, <<>>)

\* promote-workflow.py line 318: the pattern is written in an f-string, where
\* {2,} is a replacement field that formats the tuple (2,): the pattern is
\* ^(#(2,))\s+name\s*$, which matches the line "#2, name" and no heading; the
\* group is then "#2,", of length 3
AfterHeader(line, name) == line.k = "hash2comma" /\ line.title = name

\* promote-workflow.py lines 316-340: the loop over the lines from line i on
RECURSIVE AfterLoop(_, _, _, _, _, _)
AfterLoop(d, name, text, i, in_section, result) ==
    IF i > Len(d)
    THEN IF in_section THEN result \o text ELSE result
    ELSE IF AfterHeader(d[i], name)
    THEN AfterLoop(d, name, text, i + 1, TRUE, Append(result, d[i]))
    ELSE IF in_section /\ EndsSection(d[i], 3)
    THEN AfterLoop(d, name, text, i + 1, FALSE, result \o text \o <<Blank, d[i]>>)
    ELSE AfterLoop(d, name, text, i + 1, in_section, Append(result, d[i]))

\* promote-workflow.py lines 309-340
insert_after_section(d, name, text) ==
    AfterLoop(d, name, text, 1, FALSE, <<>>)

\* promote-workflow.py line 126: ^(#{2,3})\s+(.+)$
IsSectionHeading(line) == line.k = "h" /\ line.level \in {2, 3}

NoSection == ""

\* promote-workflow.py lines 131-152: the loop over the lines from line i on; a
\* section is closed by the next heading and takes the level of that heading,
\* the last section takes level 2
RECURSIVE ParseLoop(_, _, _, _, _)
ParseLoop(d, i, current_section, current_content, sections) ==
    IF i > Len(d)
    THEN IF current_section # NoSection
         THEN Append(sections, [title |-> current_section,
                                content |-> Strip(current_content),
                                level |-> 2])
         ELSE sections
    ELSE IF IsSectionHeading(d[i])
    THEN ParseLoop(d, i + 1, d[i].title, <<>>,
                   IF current_section # NoSection
                   THEN Append(sections, [title |-> current_section,
                                          content |-> Strip(current_content),
                                          level |-> d[i].level])
                   ELSE sections)
    ELSE ParseLoop(d, i + 1, current_section, Append(current_content, d[i]), sections)

\* promote-workflow.py lines 118-154, on a document with no memory-sync marker
parse_claude_md_sections(d) == ParseLoop(d, 1, NoSection, <<>>, <<>>)

\* the new section appended as a subsection, under a heading of 3 #
AppendSection_Subsection(d, name, entry) ==
    Rstrip(d) \o <<Blank, Heading(3, name), Blank>> \o entry \o <<Blank>>

\* promote-workflow.py lines 290 and 306: the new section at the end of the text
AppendSection(d, name, entry) ==
    Rstrip(d) \o <<Blank, Heading(2, name), Blank>> \o entry \o <<Blank>>

\* position of a title in type_order, 0 when it is not there
OrderOf(name) ==
    IF \E i \in 1..Len(type_order) : type_order[i] = name
    THEN CHOOSE i \in 1..Len(type_order) : type_order[i] = name
    ELSE 0

\* promote-workflow.py lines 283-306
create_section(d, name, entry) ==
    LET earlier == {i \in 1..(OrderOf(name) - 1) : section_exists(d, type_order[i])}
    IN  IF parse_claude_md_sections(d) = <<>> THEN AppendSection(d, name, entry)
        ELSE IF earlier # {}
        THEN LET prev == CHOOSE i \in earlier : \A j \in earlier : j <= i
             IN  insert_after_section(d, type_order[prev],
                                      <<Blank, Heading(2, name), Blank>> \o entry)
        ELSE AppendSection(d, name, entry)

\* promote-workflow.py lines 346-373: the text add_to_claude_md computes
NewContent(d, type, title) ==
    LET content == IF d = NoFile THEN <<Heading(1, "CLAUDE.md"), Blank, Blank>> ELSE d
        section_name == SectionOf(type)
        memory_entry == format_memory_entry(title)
    IN  IF section_exists(content, section_name)
        THEN insert_into_section(content, section_name, memory_entry)
        ELSE create_section(content, section_name, memory_entry)

\* promote-workflow.py lines 343-381; in a dry run nothing is created or written
add_to_claude_md(type, title, dry_run) ==
    /\ docop.n < MaxAdds
    /\ doc' = IF dry_run THEN doc ELSE NewContent(doc, type, title)
    /\ docop' = [op |-> "add", n |-> docop.n + 1, type |-> type, title |-> title,
                 dry |-> dry_run, input |-> doc, manual |-> <<>>, sections |-> <<>>]

\* the lines of the memory-sync region: the two markers, an HTML comment, and the
\* "<!-- source: id, confidence: c -->" line of an entry
SyncStart == [k |-> "start", level |-> 0, title |-> ""]
SyncEnd == [k |-> "end", level |-> 0, title |-> ""]
Comment == [k |-> "comment", level |-> 0, title |-> ""]
Source(id) == [k |-> "source", level |-> 0, title |-> id]

\* position of the first line of kind k from line i on, 0 when there is none
FirstOfKind(d, k, i) ==
    IF \E j \in i..Len(d) : d[j].k = k
    THEN CHOOSE j \in i..Len(d) : d[j].k = k /\ \A x \in i..(j - 1) : d[x].k # k
    ELSE 0

\* sync-claude-md.py lines 117 and 121: every start marker with the nearest end
\* marker after it, and the text between them, is cut out of the text; the
\* line breaks around the block stay, which leaves one empty line in its place
RECURSIVE RemoveBlocks(_)
RemoveBlocks(d) ==
    LET i == FirstOfKind(d, "start", 1)
        j == IF i = 0 THEN 0 ELSE FirstOfKind(d, "end", i + 1)
    IN  IF i = 0 \/ j = 0 THEN d
        ELSE SubSeq(d, 1, i - 1) \o <<Blank>> \o RemoveBlocks(SubSeq(d, j + 1, Len(d)))

\* sync-claude-md.py lines 118 and 124-133: the ids of the source lines inside
\* the blocks, in order
RECURSIVE SourcesInBlocks(_)
SourcesInBlocks(d) ==
    LET i == FirstOfKind(d, "start", 1)
        j == IF i = 0 THEN 0 ELSE FirstOfKind(d, "end", i + 1)
        inside == SelectSeq(SubSeq(d, i + 1, j - 1), LAMBDA l : l.k = "source")
    IN  IF i = 0 \/ j = 0 THEN <<>>
        ELSE [x \in 1..Len(inside) |-> inside[x].title]
                \o SourcesInBlocks(SubSeq(d, j + 1, Len(d)))

\* sync-claude-md.py lines 102-139: manual_sections is the text without its
\* memory-sync blocks, stripped; a missing file reads as the empty text
parse_claude_md(d) ==
    [manual_sections |-> Strip(RemoveBlocks(d)), auto_synced |-> SourcesInBlocks(d),
     all_content |-> d]

\* a reader parses the document: sync-claude-md.py lines 219, 303, 408 and
\* promote-workflow.py lines 205, 286
ParseDoc ==
    /\ doc # NoFile
    /\ docop.op # "parse"
    /\ docop' = [op |-> "parse", n |-> docop.n, type |-> "", title |-> "",
                 dry |-> FALSE, input |-> doc,
                 manual |-> parse_claude_md(doc).manual_sections,
                 sections |-> parse_claude_md_sections(doc)]
    /\ UNCHANGED doc

FreshDocOp ==
    [op |-> "init", n |-> 0, type |-> "", title |-> "", dry |-> FALSE,
     input |-> <<>>, manual |-> <<>>, sections |-> <<>>]

InitDoc ==
    /\ ConfIdle
    /\ FbIdle
    /\ buckets = NoBuckets
    /\ doc \in Docs \cup {NoFile}
    /\ docop = FreshDocOp
    /\ dup = NoDup
    /\ wf = NoRun
    /\ archive = <<>>
    /\ decisions = <<>>

NextDoc ==
    \/ /\ \E type \in MemTypes, dry_run \in BOOLEAN : add_to_claude_md(type, "N", dry_run)
       /\ UNCHANGED <<confvars, last, fbvars, buckets, dup, wfvars>>
    \/ /\ ParseDoc
       /\ UNCHANGED <<confvars, last, fbvars, buckets, dup, wfvars>>

SpecDoc == InitDoc /\ [][NextDoc]_vars

-----------------------------------------------------------------------------
(* Records added one after another to a document with no canonical section *)

MaxInserts == 3      \* number of records added to the document

\* the types of the records added: each of the mapped types, and one that is not
InsertTypes ==
    {"preference", "pattern", "workflow", "project", "correction", "negative", "unknown"}

\* promote-workflow.py lines 343-381, called again and again on the same file
InsertRecord(type) ==
    /\ docop.n < MaxInserts
    /\ doc' = NewContent(doc, type, "N")
    /\ docop' = [op |-> "add", n |-> docop.n + 1, type |-> type, title |-> "N",
                 dry |-> FALSE, input |-> doc, manual |-> <<>>, sections |-> <<>>]

\* the documents with no section of a canonical title: no file, a title line,
\* a title line with a hand-written section
InitOrder ==
    /\ ConfIdle
    /\ FbIdle
    /\ buckets = NoBuckets
    /\ doc \in {NoFile,
                <<Heading(1, "Notes"), Blank>>,
                <<Heading(1, "Notes"), Blank, Heading(2, "Setup"), Prose, Blank>>}
    /\ docop = FreshDocOp
    /\ dup = NoDup
    /\ wf = NoRun
    /\ archive = <<>>
    /\ decisions = <<>>

NextOrder ==
    \/ /\ \E type \in InsertTypes : InsertRecord(type)
       /\ UNCHANGED <<confvars, last, fbvars, buckets, dup, wfvars>>

SpecOrder == InitOrder /\ [][NextOrder]_vars

-----------------------------------------------------------------------------
(* Duplicate detection: titles as strings of characters *)

MaxTitleLen == 4     \* number of characters of a title

Chars == {"a", "*", " "}
Letters == {"a", "b", "c", "d", "e", "h", "t"}

Titles == UNION {[1..n -> Chars] : n \in 0..MaxTitleLen}

\* str.strip() of a title: the spaces at both ends are dropped
RECURSIVE StripSpaces(_)
StripSpaces(s) ==
    IF Len(s) = 0 THEN s
    ELSE IF s[1] = " " THEN StripSpaces(SubSeq(s, 2, Len(s)))
    ELSE IF s[Len(s)] = " " THEN StripSpaces(SubSeq(s, 1, Len(s) - 1))
    ELSE s

\* promote-workflow.py lines 102-104
stop_words ==
    {<<"t", "h", "e">>,
     <<"a", "n", "d">>,
     <<"f", "o", "r">>,
     <<"u", "s", "e">>,
     <<"w", "h", "e", "n">>,
     <<"w", "i", "t", "h">>,
     <<"s", "h", "o", "u", "l", "d">>,
     <<"f", "r", "o", "m">>,
     <<"t", "h", "a", "t">>,
     <<"t", "h", "i", "s">>,
     <<"h", "a", "v", "e">>,
     <<"w", "i", "l", "l">>,
     <<"y", "o", "u", "r">>,
     <<"p", "r", "e", "f", "e", "r">>,
     <<"d", "e", "f", "a", "u", "l", "t">>,
     <<"i", "n", "s", "t", "e", "a", "d">>,
     <<"a", "l", "w", "a", "y", "s">>,
     <<"n", "e", "v", "e", "r">>,
     <<"a", "v", "o", "i", "d">>,
     <<"s", "u", "g", "g", "e", "s", "t">>}

\* promote-workflow.py lines 97-105: \b[a-z]{3,}\b finds the maximal runs of
\* letters of length 3 or more; the stop words are left out
extract_keywords(s) ==
    {SubSeq(s, p[1], p[2]) :
        p \in {q \in (1..Len(s)) \X (1..Len(s)) :
                  /\ q[2] - q[1] + 1 >= 3
                  /\ \A i \in q[1]..q[2] : s[i] \in Letters
                  /\ q[1] = 1 \/ s[q[1] - 1] \notin Letters
                  /\ q[2] = Len(s) \/ s[q[2] + 1] \notin Letters}}
        \ stop_words

\* the title bullet format_memory_entry writes for a title (line 227)
BulletLine(t) == <<"-", " ", "*", "*">> \o t \o <<"*", "*">>

\* position of the first "*" from position i on, one past the end when there is none
FirstStar(s, i) ==
    IF \E k \in i..Len(s) : s[k] = "*"
    THEN CHOOSE k \in i..Len(s) : s[k] = "*" /\ \A j \in i..(k - 1) : s[j] # "*"
    ELSE Len(s) + 1

\* promote-workflow.py lines 112-114, on one bullet line: after "- **", group 1
\* ([^*]+) is the run of characters up to the first "*", which must not be
\* empty and must be followed by "**"; the title is the group stripped
MatchedTitles(line) ==
    LET k == FirstStar(line, 5)
    IN  IF k > 5 /\ k + 1 <= Len(line) /\ line[k] = "*" /\ line[k + 1] = "*"
        THEN <<StripSpaces(SubSeq(line, 5, k - 1))>>
        ELSE <<>>

\* promote-workflow.py lines 108-115, on a document of title bullets
RECURSIVE extract_memory_titles(_)
extract_memory_titles(bullets) ==
    IF Len(bullets) = 0 THEN <<>>
    ELSE MatchedTitles(BulletLine(bullets[1]))
            \o extract_memory_titles(SubSeq(bullets, 2, Len(bullets)))

\* promote-workflow.py lines 182-187: overlap > 0.7
Similar(k1, k2) ==
    10 * Cardinality(k1 \cap k2) > 7 * Cardinality(k1 \cup k2)

\* check_duplicate reporting the last similar title of the document
check_duplicate_LastSimilar(title, bullets) ==
    LET existing_titles == extract_memory_titles(bullets)
        memory_title == StripSpaces(title)
        memory_keywords == extract_keywords(memory_title)
        hits == {i \in 1..Len(existing_titles) :
                    /\ extract_keywords(existing_titles[i]) # {}
                    /\ Similar(memory_keywords, extract_keywords(existing_titles[i]))}
    IN  IF \E i \in 1..Len(existing_titles) : existing_titles[i] = memory_title
        THEN [status |-> "exact", match |-> memory_title]
        ELSE IF memory_keywords = {} \/ hits = {}
        THEN [status |-> "new", match |-> <<>>]
        ELSE [status |-> "similar",
              match |-> existing_titles[CHOOSE i \in hits : \A j \in hits : i >= j]]

\* promote-workflow.py lines 157-190
check_duplicate(title, bullets) ==
    LET existing_titles == extract_memory_titles(bullets)
        memory_title == StripSpaces(title)
        memory_keywords == extract_keywords(memory_title)
        hits == {i \in 1..Len(existing_titles) :
                    /\ extract_keywords(existing_titles[i]) # {}
                    /\ Similar(memory_keywords, extract_keywords(existing_titles[i]))}
    IN  IF \E i \in 1..Len(existing_titles) : existing_titles[i] = memory_title
        THEN [status |-> "exact", match |-> memory_title]
        ELSE IF memory_keywords = {} \/ hits = {}
        THEN [status |-> "new", match |-> <<>>]
        ELSE [status |-> "similar",
              match |-> existing_titles[CHOOSE i \in hits : \A j \in hits : i <= j]]

CheckDuplicate ==
    /\ dup.op = "init"
    /\ dup' = [op |-> "check", title |-> dup.title, bullets |-> dup.bullets,
               status |-> check_duplicate(dup.title, dup.bullets).status,
               match |-> check_duplicate(dup.title, dup.bullets).match]

\* a record title and a document with at most one title bullet
InitDup ==
    /\ ConfIdle
    /\ FbIdle
    /\ buckets = NoBuckets
    /\ doc = NoFile
    /\ docop = NoDocOp
    /\ \E t \in Titles, b \in {<<>>} \cup {<<x>> : x \in Titles} :
          dup = [op |-> "init", title |-> t, bullets |-> b, status |-> "", match |-> <<>>]
    /\ wf = NoRun
    /\ archive = <<>>
    /\ decisions = <<>>

NextDup ==
    \/ /\ CheckDuplicate
       /\ UNCHANGED <<confvars, last, fbvars, buckets, docvars, wfvars>>

SpecDup == InitDup /\ [][NextDup]_vars

-----------------------------------------------------------------------------
(* The promotion workflow, interactive mode *)

MaxRuns == 2         \* number of runs of the workflow

\* the records that pass the selection gates, in store order
WfIds == <<"w1", "w2", "w3">>

Decisions == {"add", "develop-yes", "develop-no", "skip", "keep", "quit"}

NoResults == [added |-> 0, denied |-> 0, kept |-> 0, developed |-> 0]

FreshRun ==
    [pc |-> "idle", queue |-> <<>>, pos |-> 0, dry |-> FALSE, taken |-> <<>>,
     quit |-> FALSE, merge_failed |-> FALSE, runs |-> 0, types |-> <<>>,
     results |-> NoResults]

\* get_promotion_candidates: the records that pass the gates and have no archive
\* event; a run is taken within the cooldown of every kept_observing event
get_promotion_candidates(events) ==
    SelectSeq(WfIds, LAMBDA id : \A i \in 1..Len(events) : events[i].id # id)

\* archive_memory and log_claude_md_decision: an event is appended
Recorded(lg, id, decision) == Append(lg, [id |-> id, decision |-> decision])

\* promote-workflow.py lines 549-565: the run starts and reads its candidates;
\* with none it returns at once
StartRun(dry_run) ==
    /\ wf.pc \in {"idle", "done", "aborted"}
    /\ wf.runs < MaxRuns
    /\ LET candidates == get_promotion_candidates(archive)
       IN  wf' = [wf EXCEPT !.pc = IF candidates = <<>> THEN "done" ELSE "review",
                            !.queue = candidates,
                            !.pos = 1,
                            !.dry = dry_run,
                            !.taken = <<>>,
                            !.quit = FALSE,
                            !.merge_failed = FALSE,
                            !.runs = @ + 1,
                            !.results = NoResults]
    /\ UNCHANGED <<doc, docop, archive, decisions>>

\* the run state after the decision on the candidate at pos has been carried out
Advance(w, decision, results) ==
    [w EXCEPT !.pc = IF w.pos = Len(w.queue) THEN "done" ELSE "review",
              !.pos = @ + 1,
              !.taken = Append(@, decision),
              !.merge_failed = FALSE,
              !.results = results]

\* promote-workflow.py lines 598-600
Quit ==
    /\ wf' = [wf EXCEPT !.pc = "done", !.quit = TRUE, !.merge_failed = FALSE]
    /\ UNCHANGED <<doc, archive, decisions>>

\* promote-workflow.py lines 602-610 and 612-625: add, or develop and confirm;
\* write_fails is target_path.write_text raising, which nothing catches
AddDecision(decision, write_fails) ==
    LET id == wf.queue[wf.pos]
        counted == [wf.results EXCEPT
                       !.added = @ + 1,
                       !.developed = IF decision = "develop-yes" THEN @ + 1 ELSE @]
    IN  IF wf.dry
        THEN /\ wf' = Advance(wf, decision, counted)
             /\ UNCHANGED <<doc, archive, decisions>>
        ELSE IF write_fails
        THEN /\ wf' = [wf EXCEPT !.pc = "aborted", !.merge_failed = TRUE,
                                 !.taken = Append(@, decision)]
             /\ UNCHANGED <<doc, archive, decisions>>
        ELSE /\ doc' = NewContent(doc, wf.types[id], id)
             /\ archive' = Recorded(archive, id, "added")
             /\ decisions' = Recorded(decisions, id, "added")
             /\ wf' = Advance(wf, decision, counted)

\* promote-workflow.py lines 630-641 and 643-650: skip and keep
ArchiveDecision(decision) ==
    LET id == wf.queue[wf.pos]
        outcome == IF decision = "skip" THEN "denied" ELSE "kept_observing"
        counted == IF decision = "skip"
                   THEN [wf.results EXCEPT !.denied = @ + 1]
                   ELSE [wf.results EXCEPT !.kept = @ + 1]
    IN  /\ wf' = Advance(wf, decision, counted)
        /\ IF wf.dry
           THEN UNCHANGED <<archive, decisions>>
           ELSE /\ archive' = Recorded(archive, id, outcome)
                /\ decisions' = Recorded(decisions, id, outcome)
        /\ UNCHANGED doc

\* promote-workflow.py lines 626-628: developed and not confirmed
Declined ==
    /\ wf' = Advance(wf, "develop-no", wf.results)
    /\ UNCHANGED <<doc, archive, decisions>>

\* promote-workflow.py lines 567-650, one pass of the loop: the candidate at pos
\* is presented and the decision read is carried out
Decide(decision, write_fails) ==
    /\ wf.pc = "review"
    /\ CASE decision = "quit" -> Quit
         [] decision \in {"add", "develop-yes"} -> AddDecision(decision, write_fails)
         [] decision \in {"skip", "keep"} -> ArchiveDecision(decision)
         [] OTHER -> Declined
    /\ UNCHANGED docop

InitWf ==
    /\ ConfIdle
    /\ FbIdle
    /\ buckets = NoBuckets
    /\ doc \in {NoFile, <<Heading(1, "CLAUDE.md"), Blank, Heading(2, "Preferences"), Blank>>}
    /\ docop = FreshDocOp
    /\ dup = NoDup
    /\ \E types \in [{WfIds[i] : i \in 1..Len(WfIds)} -> {"preference", "pattern"}] :
          wf = [FreshRun EXCEPT !.types = types]
    /\ archive = <<>>
    /\ decisions = <<>>

NextWf ==
    \/ /\ \E dry_run \in BOOLEAN : StartRun(dry_run)
       /\ UNCHANGED <<confvars, last, fbvars, buckets, dup>>
    \/ /\ \E decision \in Decisions, write_fails \in BOOLEAN : Decide(decision, write_fails)
       /\ UNCHANGED <<confvars, last, fbvars, buckets, dup>>

SpecWf == InitWf /\ [][NextWf]_vars

-----------------------------------------------------------------------------
(* A store of several records under failures: a call that is killed between *)
(* the write of the record file and save_index, and a decay pass in which   *)
(* the processing of a record fails                                        *)

MaxStoreOps == 2     \* number of calls that write the store under failures

\* index["memories"]["global"], in the order the pass visits it
StoreOrder == <<"r1", "r2">>

\* what happens to process_memory on a record: nothing, load_memory returns
\* nothing (line 137), an exception before the record is written (load_memory
\* or fromisoformat, line 151), an exception of open or json.dump (line 199)
Faults == {"none", "absent", "raises", "write_fails"}

\* the passes in which at most one record fails
SingleFaults ==
    {fault \in [IdxIds -> Faults] :
        Cardinality({id \in IdxIds : fault[id] # "none"}) <= 1}

\* load_index: the stored index, every entry resynced from its record file
load_index(ix, mems) == [id \in DOMAIN ix |-> EntryOf(mems[id])]

\* lines 183-200: process_memory reaches the write of the record file
Writes(m, t, floor, dry, fp) ==
    ProcessMemory(m, t, floor, dry, fp) # m

\* the process_memory call on the record at position i raises
Raises(mems, fault, i, t, floor, dry, fp) ==
    LET id == StoreOrder[i]
    IN  \/ fault[id] = "raises"
        \/ fault[id] = "write_fails" /\ Writes(mems[id], t, floor, dry, fp[id])

\* lines 210-217: position of the first record whose processing raises, one past
\* the end when none does
RaisesAt(mems, fault, t, floor, dry, fp) ==
    LET bad == {i \in 1..Len(StoreOrder) : Raises(mems, fault, i, t, floor, dry, fp)}
    IN  IF bad = {} THEN Len(StoreOrder) + 1
        ELSE CHOOSE i \in bad : \A j \in bad : i <= j

\* lines 135-217: the record files after the loop has visited the positions
\* before stop
PassRecords(mems, fault, stop, t, floor, dry, fp) ==
    [id \in DOMAIN mems |->
        IF /\ \E i \in 1..(stop - 1) : StoreOrder[i] = id
           /\ fault[id] = "none"
        THEN ProcessMemory(mems[id], t, floor, dry, fp[id])
        ELSE mems[id]]

\* the index adjust_confidence saves when load_index returns the file as stored
AdjustedIndex_OwnEntryOnly(ix, mems, id) ==
    [ix EXCEPT ![id] = EntryOf(mems[id])]

\* lines 81-105: the index adjust_confidence saves, loaded after the record
\* file was written
AdjustedIndex(ix, mems, id) ==
    [load_index(ix, mems) EXCEPT ![id] = EntryOf(mems[id])]

\* lines 133, 203, 219-220: the index a pass that was not a dry run saves
DecayedIndex(ix, old, new) ==
    [id \in DOMAIN ix |->
        IF new[id] # old[id]
        THEN [load_index(ix, old)[id] EXCEPT !.confidence = new[id].confidence]
        ELSE load_index(ix, old)[id]]

\* the faults of a pass, as the set of pairs <<id, fault>> of the failing records
FaultsOf(fault) == {<<id, fault[id]>> : id \in {x \in DOMAIN fault : fault[x] # "none"}}

\* the index entries that differ from their record file, as pairs <<id, "stale">>
StaleOf(ix, mems) == {<<id, "stale">> : id \in {x \in DOMAIN ix : ix[x] # EntryOf(mems[x])}}

\* lines 23-106; killed is the process ending between line 79 and line 105.
\* last.throws holds what the call met: the index entries that were out of sync
\* when it began and, for a pass, the faults of the records
AdjustStore(id, outcome, killed) ==
    /\ nops < MaxStoreOps
    /\ LET m == AdjustedMeta(memories[id], outcome, 0, now)
       IN  /\ memories' = [memories EXCEPT ![id] = m]
           /\ index' = IF killed THEN index
                       ELSE AdjustedIndex(index, memories', id)
    /\ last' = [op |-> "adjust", id |-> id, outcome |-> outcome, delta |-> 0,
                dry |-> FALSE, ok |-> ~killed, throws |-> StaleOf(index, memories)]
    /\ nops' = nops + 1
    /\ stats' = NoStats
    /\ UNCHANGED <<selected, min_confidence, now, fbvars, extvars>>

\* lines 109-222; an exception of process_memory leaves the loop and the
\* function: the records already written stay written, save_index is not
\* reached and no statistics are returned
DecayStore(dry, fault, fp) ==
    /\ dry \/ nops < MaxStoreOps
    /\ LET stop == RaisesAt(memories, fault, now, min_confidence, dry, fp)
           new == PassRecords(memories, fault, stop, now, min_confidence, dry, fp)
           done == stop > Len(StoreOrder)
           seen == [id \in {x \in DOMAIN memories : fault[x] = "none"} |-> memories[id]]
       IN  /\ memories' = new
           /\ index' = IF done /\ ~dry THEN DecayedIndex(index, memories, new)
                       ELSE index
           /\ stats' = IF done THEN DecayStats(seen, now, min_confidence, dry, fp)
                       ELSE NoStats
           /\ last' = [op |-> "decay", id |-> "", outcome |-> "", delta |-> 0,
                       dry |-> dry, ok |-> done,
                       throws |-> FaultsOf(fault) \cup StaleOf(index, memories)]
    /\ nops' = IF dry THEN nops ELSE nops + 1
    /\ UNCHANGED <<selected, min_confidence, now, fbvars, extvars>>

InitStore ==
    /\ min_confidence = ADJUST_FLOOR
    /\ memories = [id \in IdxIds |-> IF id = "r1" THEN NewMemory(900) ELSE NewMemory(110)]
    /\ index = [id \in IdxIds |-> EntryOf(memories[id])]
    /\ now = 0
    /\ nops = 0
    /\ last = NoOp
    /\ stats = NoStats
    /\ selected = {}
    /\ FbIdle
    /\ ExtIdle

NextStore ==
    \/ \E id \in IdxIds, outcome \in Outcomes, killed \in BOOLEAN :
          AdjustStore(id, outcome, killed)
    \/ \E dry \in BOOLEAN, fault \in SingleFaults, b \in BOOLEAN :
          DecayStore(dry, fault, [id \in IdxIds |-> b])
    \/ Tick /\ UNCHANGED extvars

SpecStore == InitStore /\ [][NextStore]_vars

-----------------------------------------------------------------------------
(* Unknown memory ids: adjust called on its own and from feedback processing *)

NextNotFound ==
    \/ AppendFeedback /\ UNCHANGED extvars
    \/ ProcessFeedback /\ UNCHANGED extvars
    \/ \E outcome \in Outcomes : AdjustUnknown(outcome, 0) /\ UNCHANGED extvars

SpecNotFound == InitFb /\ [][NextNotFound]_vars

-----------------------------------------------------------------------------
(* process_pending_feedback stopped inside its loop *)

\* lines 276-315 without lines 317-321: the process is stopped after the loop has
\* handled the pending entries up to position cut; the records adjust_confidence
\* wrote for them stay written, the marker is not written and no statistics
\* are returned
InterruptedFeedback(cut) ==
    LET pend == Pending(log, watermark)
        done == {i \in Succeeded(log, watermark, memories, {}) : i <= cut}
    IN  /\ cut \in pend
        /\ nops < MaxOps
        /\ nops' = nops + 1
        /\ memories' = FeedbackLoop(memories, log, done, 1, now)
        /\ index' = [id \in Ids |->
                       IF \E i \in done : log[i].memory_id = id
                       THEN EntryOf(memories'[id]) ELSE index[id]]
        /\ applied' = [i \in 1..Len(log) |->
                         IF i \in done THEN applied[i] + 1 ELSE applied[i]]
        /\ fbstats' = NoFbStats
        /\ last' = [op |-> "interrupted", id |-> "", outcome |-> "", delta |-> 0,
                    dry |-> FALSE, ok |-> FALSE, throws |-> {}]
        /\ stats' = NoStats
        /\ selected' = {}
        /\ UNCHANGED <<min_confidence, now, log, watermark, failed>>

NextKill ==
    \/ AppendFeedback /\ UNCHANGED extvars
    \/ ProcessFeedback /\ UNCHANGED extvars
    \/ (\E cut \in 1..Len(log) : InterruptedFeedback(cut)) /\ UNCHANGED extvars

SpecKill == InitFb /\ [][NextKill]_vars

-----------------------------------------------------------------------------
(* The feedback log as lines of text: entries, malformed lines, comments *)

\* what json.loads makes of a stripped line: an object with the keys of an entry
\* ("entry"), a JSONDecodeError ("garbage"), a value that is not an object, such
\* as [] or 5 ("scalar"); "comment" starts with #, "blank" is empty
LineKinds == {"entry", "garbage", "scalar", "comment", "blank"}

NoEntryLine(kind) == [kind |-> kind, timestamp |-> 0, memory_id |-> "", outcome |-> ""]

EntryLine(e) ==
    [kind |-> "entry", timestamp |-> e.timestamp, memory_id |-> e.memory_id,
     outcome |-> e.outcome]

FeedbackLines ==
    {NoEntryLine(kind) : kind \in LineKinds \ {"entry"}}
       \cup {EntryLine(e) : e \in {x \in Entries : x.timestamp > 0 /\ x.outcome = "accepted"}}

\* line 262: with a marker set, entry.get is called on every parsed line, and a
\* value that is not an object has no get
ReadRaises(lg, wm) ==
    MarkerSet(wm) /\ \E i \in 1..Len(lg) : lg[i].kind = "scalar"

\* lines 266-268: the lines counted as errors while the file is read
Undecodable(lg) == {i \in 1..Len(lg) : lg[i].kind = "garbage"}

\* lines 250-268: entries_to_process, as positions of the log
PendingLines(lg, wm) ==
    {i \in 1..Len(lg) :
        /\ lg[i].kind \in {"entry", "scalar"}
        /\ ~(MarkerSet(wm) /\ lg[i].timestamp <= wm)}

\* line 277: entry.get raises on a value that is not an object, outside the try
\* of line 287; the position where the loop is left, one past the end when it
\* runs to its end
LoopRaisesAt(lg, pend) ==
    IF \E i \in pend : lg[i].kind = "scalar"
    THEN CHOOSE i \in pend :
            /\ lg[i].kind = "scalar"
            /\ \A j \in pend : lg[j].kind = "scalar" => i <= j
    ELSE Len(lg) + 1

\* lines 225-323, on a log of lines
ProcessFeedbackLines(throws) ==
    LET pend == PendingLines(log, watermark)
        stop == LoopRaisesAt(log, pend)
        visited == {i \in pend : i < stop}
        done == {i \in visited : log[i].memory_id \in DOMAIN memories /\ i \notin throws}
        bad == Undecodable(log) \cup (visited \ done)
        returns == ~ReadRaises(log, watermark) /\ stop > Len(log)
    IN  /\ throws \subseteq {i \in pend : log[i].kind = "entry"}
        /\ nops < MaxOps
        /\ nops' = nops + 1
        /\ IF ReadRaises(log, watermark)
           THEN /\ fbstats' = NoFbStats
                /\ UNCHANGED <<memories, index, watermark, applied, failed>>
           ELSE /\ memories' = FeedbackLoop(memories, log, done, 1, now)
                /\ index' = [id \in Ids |->
                               IF \E i \in done : log[i].memory_id = id
                               THEN EntryOf(memories'[id]) ELSE index[id]]
                /\ applied' = [i \in 1..Len(log) |->
                                 IF i \in done THEN applied[i] + 1 ELSE applied[i]]
                /\ failed' = [i \in 1..Len(log) |->
                                IF returns /\ i \in bad THEN failed[i] + 1 ELSE failed[i]]
                /\ fbstats' = IF returns
                              THEN [processed |-> Cardinality(done),
                                    errors |-> Cardinality(bad)]
                              ELSE NoFbStats
                /\ watermark' = IF returns /\ pend # {}
                                THEN MaxTimestamp(log, pend) ELSE watermark
        /\ last' = [op |-> "feedback", id |-> "", outcome |-> "", delta |-> 0,
                    dry |-> FALSE, ok |-> returns, throws |-> throws]
        /\ stats' = NoStats
        /\ selected' = {}
        /\ UNCHANGED <<min_confidence, now, log>>

\* a line is appended to feedback.jsonl
AppendLine ==
    /\ Len(log) < MaxLog
    /\ \E l \in FeedbackLines :
         /\ log' = Append(log, l)
         /\ applied' = Append(applied, 0)
         /\ failed' = Append(failed, 0)
    /\ last' = [op |-> "append", id |-> "", outcome |-> "", delta |-> 0,
                dry |-> FALSE, ok |-> TRUE, throws |-> {}]
    /\ stats' = NoStats
    /\ selected' = {}
    /\ UNCHANGED <<memories, index, min_confidence, now, nops, watermark, fbstats>>

NextLines ==
    \/ AppendLine /\ UNCHANGED extvars
    \/ /\ \E throws \in SUBSET (1..Len(log)) : ProcessFeedbackLines(throws)
       /\ UNCHANGED extvars

SpecLines == InitFb /\ [][NextLines]_vars

-----------------------------------------------------------------------------
(* promote_memories_to_claude_md: the document rewritten from the store *)

MaxSyncs == 3        \* number of promote_memories_to_claude_md calls
MaxSyncDocLen == 2   \* number of lines of the document before the first call

\* memory.get("type") of the records of the store
SyncTypes == [r1 |-> "pattern", r2 |-> "preference"]

\* sync-claude-md.py lines 237-245: type_order as section titles
SyncSectionOrder == <<"preference", "pattern", "workflow", "project", "correction", "negative">>

\* sync-claude-md.py lines 188-209: promoted, in store order
Promoted(mems) == SelectSeq(StoreOrder, LAMBDA id : id \in Candidates(mems))

\* sync-claude-md.py lines 142-163: format_memory_for_claude_md, as lines
format_memory_for_claude_md(id) == <<Source(id), Bullet(id), Detail, Blank>>

RECURSIVE Flatten(_)
Flatten(ss) == IF Len(ss) = 0 THEN <<>> ELSE ss[1] \o Flatten(SubSeq(ss, 2, Len(ss)))

\* sync-claude-md.py lines 247-253: the group of one type, nothing when no
\* promoted record has the type
SyncGroup(promoted, type) ==
    LET of_type == SelectSeq(promoted, LAMBDA id : SyncTypes[id] = type)
    IN  IF Len(of_type) = 0 THEN <<>>
        ELSE <<Heading(3, SectionOf(type)), Blank>>
                \o Flatten([i \in 1..Len(of_type) |-> format_memory_for_claude_md(of_type[i])])
                \o <<Blank>>

\* sync-claude-md.py lines 221-255: auto_sync_content
auto_sync_content(promoted) ==
    <<SyncStart, Comment, Comment, Blank>>
       \o Flatten([i \in 1..Len(SyncSectionOrder) |-> SyncGroup(promoted, SyncSectionOrder[i])])
       \o <<SyncEnd>>

\* sync-claude-md.py lines 264-269: the manual part of new_content
ManualPart(manual) ==
    IF manual = <<Blank>> THEN <<>>
    ELSE <<Blank, Heading(2, "Manual Configuration"), Comment, Blank>> \o manual

\* sync-claude-md.py lines 257-269: new_content
new_content(d, promoted) ==
    <<Heading(1, "Claude Configuration"), Blank, Heading(2, "Auto-Synced Memories"), Blank>>
       \o auto_sync_content(promoted)
       \o ManualPart(parse_claude_md(d).manual_sections)

\* sync-claude-md.py lines 166-281
promote_memories_to_claude_md(dry_run) ==
    /\ docop.n < MaxSyncs
    /\ LET promoted == Promoted(memories)
       IN  /\ doc' = IF Len(promoted) = 0 \/ dry_run THEN doc
                     ELSE new_content(doc, promoted)
           /\ docop' = [op |-> "sync", n |-> docop.n + 1, type |-> "", title |-> "",
                        dry |-> dry_run, input |-> doc,
                        manual |-> parse_claude_md(doc).manual_sections,
                        sections |-> promoted]

\* the lines of a document written by hand or left by an earlier version
SyncDocLines == {Blank, Prose, Bullet("A"), SyncStart, SyncEnd}

InitSync ==
    /\ min_confidence = ADJUST_FLOOR
    /\ memories \in [IdxIds -> {[NewMemory(900) EXCEPT !.positive_reinforcement = 3,
                                                       !.access_count = 3],
                                NewMemory(900)}]
    /\ index = [id \in IdxIds |-> EntryOf(memories[id])]
    /\ now = 0
    /\ nops = 0
    /\ last = NoOp
    /\ stats = NoStats
    /\ selected = {}
    /\ FbIdle
    /\ buckets = NoBuckets
    /\ doc \in {NoFile} \cup UNION {[1..n -> SyncDocLines] : n \in 1..MaxSyncDocLen}
    /\ docop = FreshDocOp
    /\ dup = NoDup
    /\ wf = NoRun
    /\ archive = <<>>
    /\ decisions = <<>>

NextSync ==
    \/ /\ \E dry_run \in BOOLEAN : promote_memories_to_claude_md(dry_run)
       /\ UNCHANGED <<confvars, last, fbvars, buckets, dup, wfvars>>

SpecSync == InitSync /\ [][NextSync]_vars

-----------------------------------------------------------------------------
(* Similar titles: titles made of whole words, documents of several bullets *)

MaxBullets == 2      \* number of title bullets of the document

\* four keywords and a stop word
SimWords == <<<<"a", "a", "a">>, <<"b", "b", "b">>, <<"c", "c", "c">>, <<"d", "d", "d">>>>
TheWord == <<"t", "h", "e">>

\* the words joined by single spaces
RECURSIVE JoinWords(_)
JoinWords(ws) ==
    IF Len(ws) = 0 THEN <<>>
    ELSE IF Len(ws) = 1 THEN ws[1]
    ELSE ws[1] \o <<" ">> \o JoinWords(SubSeq(ws, 2, Len(ws)))

\* the titles: some of the keywords, in order, with or without the stop word at
\* the end; the empty title is left out
SimTitles ==
    {JoinWords(SelectSeq(SimWords \o <<TheWord>>,
                         LAMBDA w : w \in ws)) :
        ws \in (SUBSET {SimWords[i] : i \in 1..Len(SimWords)} \cup
                {x \cup {TheWord} : x \in SUBSET {SimWords[i] : i \in 1..Len(SimWords)}})
               \ {{}}}

InitSim ==
    /\ ConfIdle
    /\ FbIdle
    /\ buckets = NoBuckets
    /\ doc = NoFile
    /\ docop = NoDocOp
    /\ \E t \in SimTitles, b \in UNION {[1..n -> SimTitles] : n \in 0..MaxBullets} :
          dup = [op |-> "init", title |-> t, bullets |-> b, status |-> "", match |-> <<>>]
    /\ wf = NoRun
    /\ archive = <<>>
    /\ decisions = <<>>

SpecSim == InitSim /\ [][NextDup]_vars

\* C35: a record created with no reinforcement and no access has, after any
\* adjust calls and decay passes, positive_reinforcement + negative_reinforcement
\* <= access_count, so positive / access_count is at most 1 and the decay
\* factor at most 1.0
C35_ReinforcementsWithinAccesses ==
    \A id \in Ids :
        LET m == memories[id]
        IN  /\ m.positive_reinforcement + m.negative_reinforcement <= m.access_count
            /\ m.positive_reinforcement <= m.access_count
            /\ DaysSinceAccess(m, now) >= 0 => FactorNum(m, now) <= FactorDen(m, now)

\* a record accepted and rejected, every access of it a reinforcement, that a
\* decay pass then decayed
C35_Witness ==
    /\ last.op = "decay"
    /\ stats.decayed = 1
    /\ \E id \in Ids :
          /\ memories[id].positive_reinforcement >= 1
          /\ memories[id].negative_reinforcement >= 1
          /\ memories[id].positive_reinforcement + memories[id].negative_reinforcement
                = memories[id].access_count

\* C38: a decay pass changes only confidence and status of a record and the
\* confidence of its index entry; the elapsed days and the decay factor of
\* the record are what they were, so a second pass at the same instant decays
\* the decayed confidence by the full factor again
C38_DecayChangesOnlyConfidenceAndStatus ==
    [][last'.op = "decay" =>
          \A id \in Ids :
             LET m == memories[id]
                 n == memories'[id]
             IN  /\ [n EXCEPT !.confidence = m.confidence, !.status = m.status] = m
                 /\ [index'[id] EXCEPT !.confidence = index[id].confidence] = index[id]
                 /\ DaysSinceAccess(n, now') = DaysSinceAccess(m, now)
                 /\ FactorNum(n, now') = FactorNum(m, now)
                 /\ FactorDen(n, now') = FactorDen(m, now)
                 /\ n.status = m.status => (Decays(n, now') <=> Decays(m, now))]_vars

\* two passes one day after creation: 0.9 decayed to 0.891 and again to 0.882
C38_Witness ==
    /\ last.op = "decay"
    /\ ~last.dry
    /\ stats.decayed = 1
    /\ now < 2 * TicksPerDay
    /\ \E id \in Ids :
          /\ memories[id].confidence = 882
          /\ memories[id].access_count = 0
          /\ memories[id].status = "active"

-----------------------------------------------------------------------------
(* The promotion workflow, auto mode *)

\* the titles of the candidates: three titles that share keywords, one with a
\* single keyword and one with a star and no keyword
AutoTitles ==
    {JoinWords(<<SimWords[1], SimWords[2], SimWords[3]>>),
     JoinWords(<<SimWords[1], SimWords[2], SimWords[4]>>),
     JoinWords(<<SimWords[1], SimWords[2], SimWords[3], SimWords[4]>>),
     SimWords[4],
     <<"a", "*", "b">>}

\* the description of every candidate, a text with no keyword
Description == <<"e">>

\* the type of each candidate
AutoTypes == [w1 |-> "preference", w2 |-> "pattern", w3 |-> "preference"]

\* promote-workflow.py lines 112-114 on a document: the titles of the lines that
\* are title bullets, in document order (no other line of a document starts with
\* "- **")
TitlesOf(d) ==
    LET b == SelectSeq(d, LAMBDA l : l.k = "bullet")
    IN  [i \in 1..Len(b) |-> b[i].title]

\* the keywords of the lines of a section: those of the titles of its bullets;
\* its other lines hold no word that is a keyword of a candidate
ContentKeywords(content) ==
    UNION {extract_keywords(content[i].title) :
              i \in {j \in 1..Len(content) : content[j].k = "bullet"}}

\* promote-workflow.py lines 193-219: the titles of the sections that share at
\* least 2 keywords with the title and description of the memory
check_overlaps(title, d) ==
    LET memory_keywords == extract_keywords(title \o <<" ">> \o Description)
        sections == parse_claude_md_sections(d)
        hit == SelectSeq(sections,
                   LAMBDA s : Cardinality(memory_keywords \cap ContentKeywords(s.content)) >= 2)
    IN  IF memory_keywords = {} THEN <<>>
        ELSE [i \in 1..Len(hit) |-> hit[i].title]

\* the auto gate testing duplicates only
AutoSkips_DuplicatesOnly(title, d) ==
    /\ d # NoFile
    /\ check_duplicate(title, TitlesOf(d)).status # "new"

\* promote-workflow.py lines 575-582: the candidate is passed over
AutoSkips(title, d) ==
    /\ d # NoFile
    /\ \/ check_duplicate(title, TitlesOf(d)).status # "new"
       \/ check_overlaps(title, d) # <<>>

\* promote-workflow.py lines 573-593, one pass of the loop in auto mode; killed
\* is the process stopped after add_to_claude_md returned (line 588) and before
\* archive_memory (line 589)
AutoStep(killed) ==
    LET id == wf.queue[wf.pos]
        title == wf.titles[id]
        counted == [wf.results EXCEPT !.added = @ + 1]
    IN  /\ wf.pc = "review"
        /\ IF AutoSkips(title, doc)
           THEN /\ wf' = Advance(wf, "skipped", wf.results)
                /\ UNCHANGED <<doc, archive, decisions>>
           ELSE IF wf.dry
           THEN /\ wf' = Advance(wf, "added", counted)
                /\ UNCHANGED <<doc, archive, decisions>>
           ELSE IF killed
           THEN /\ doc' = NewContent(doc, wf.types[id], title)
                /\ wf' = [wf EXCEPT !.pc = "aborted", !.taken = Append(@, "added")]
                /\ UNCHANGED <<archive, decisions>>
           ELSE /\ doc' = NewContent(doc, wf.types[id], title)
                /\ archive' = Recorded(archive, id, "added")
                /\ decisions' = Recorded(decisions, id, "added")
                /\ wf' = Advance(wf, "added", counted)
        /\ UNCHANGED docop

InitAuto ==
    /\ ConfIdle
    /\ FbIdle
    /\ buckets = NoBuckets
    /\ doc \in {NoFile, <<Heading(1, "CLAUDE.md"), Blank, Heading(2, "Preferences"), Blank>>}
    /\ docop = FreshDocOp
    /\ dup = NoDup
    /\ \E titles \in [{WfIds[i] : i \in 1..Len(WfIds)} -> AutoTitles] :
          wf = [pc |-> "idle", queue |-> <<>>, pos |-> 0, dry |-> FALSE, taken |-> <<>>,
                quit |-> FALSE, merge_failed |-> FALSE, runs |-> 0, types |-> AutoTypes,
                results |-> NoResults, titles |-> titles]
    /\ archive = <<>>
    /\ decisions = <<>>

NextAuto ==
    \/ /\ \E dry_run \in BOOLEAN : StartRun(dry_run)
       /\ UNCHANGED <<confvars, last, fbvars, buckets, dup>>
    \/ /\ \E killed \in BOOLEAN : AutoStep(killed)
       /\ UNCHANGED <<confvars, last, fbvars, buckets, dup>>

SpecAuto == InitAuto /\ [][NextAuto]_vars

-----------------------------------------------------------------------------
(* Properties of the confidence engine *)

AdjustedBy(l, outcome) ==
    l.op = "adjust" /\ l.ok /\ l.outcome = outcome /\ l.delta = 0

\* C1: in every reachable state every record's confidence lies in
\* [min_confidence, 1.0], min_confidence being the configured floor decay uses
C1_ConfidenceWithinConfiguredRange ==
    \A id \in Ids :
        /\ memories[id].confidence >= min_confidence
        /\ memories[id].confidence <= ONE

\* C2: once a record's status is archived or superseded, no adjust call and
\* no decay pass changes it
C2_RetiredStatusNeverChanges ==
    [][\A id \in Ids :
          memories[id].status \in {"archived", "superseded"}
              => memories'[id].status = memories[id].status]_vars

\* C4: adjust with outcome accepted and no explicit delta sets confidence to
\* min(1.0, c + 0.1), adds exactly 1 to positive_reinforcement and leaves
\* negative_reinforcement and status as they were
C4_AcceptedRule ==
    [][AdjustedBy(last', "accepted") =>
          LET old == memories[last'.id]
              new == memories'[last'.id]
          IN  /\ new.confidence = (IF old.confidence + 100 > 1000 THEN 1000
                                   ELSE old.confidence + 100)
              /\ new.positive_reinforcement = old.positive_reinforcement + 1
              /\ new.negative_reinforcement = old.negative_reinforcement
              /\ new.status = old.status]_vars

\* an accepted adjust has just acted on a record already at 0.95 or more, so the sum was clamped to 1.0
C4_Witness ==
    /\ AdjustedBy(last, "accepted")
    /\ memories[last.id].confidence = ONE
    /\ memories[last.id].positive_reinforcement >= 2

\* C5: adjust with outcome rejected and no explicit delta sets confidence to
\* max(0.1, c - 0.2), adds exactly 1 to negative_reinforcement, sets status to
\* under_review whenever c - 0.2 < 0.3, and leaves the status as it was when the
\* resulting confidence is at least 0.3
C5_RejectedRule ==
    [][AdjustedBy(last', "rejected") =>
          LET old == memories[last'.id]
              new == memories'[last'.id]
          IN  /\ new.confidence = (IF old.confidence - 200 < 100 THEN 100
                                   ELSE old.confidence - 200)
              /\ new.negative_reinforcement = old.negative_reinforcement + 1
              /\ new.positive_reinforcement = old.positive_reinforcement
              /\ old.confidence - 200 < 300 => new.status = "under_review"
              /\ new.confidence >= 300 => new.status = old.status]_vars

\* a rejected adjust has just acted and left the record at exactly 0.3, still active
C5_Witness ==
    /\ AdjustedBy(last, "rejected")
    /\ memories[last.id].confidence = 300
    /\ memories[last.id].status = "active"
    /\ memories[last.id].negative_reinforcement = 1

\* C6: adjust with outcome superseded and no explicit delta sets the status to
\* superseded and leaves confidence and both reinforcement counts as they were
C6_SupersededRule ==
    [][AdjustedBy(last', "superseded") =>
          LET old == memories[last'.id]
              new == memories'[last'.id]
          IN  /\ new.status = "superseded"
              /\ new.confidence = old.confidence
              /\ new.positive_reinforcement = old.positive_reinforcement
              /\ new.negative_reinforcement = old.negative_reinforcement]_vars

\* a superseded adjust has just acted on a record that had feedback before
C6_Witness ==
    /\ AdjustedBy(last, "superseded")
    /\ memories[last.id].status = "superseded"
    /\ memories[last.id].positive_reinforcement + memories[last.id].negative_reinforcement >= 1

\* C7: a decay pass never raises a confidence: after the pass the stored confidence of a
\* record with at least 1 elapsed whole day is <= the one before, whatever the
\* configured floor; and a record with less than 1 elapsed whole day is left as it
\* was, record and index entry
C7_DecayNeverRaises ==
    [][(last'.op = "decay" /\ ~last'.dry) =>
          \A id \in Ids :
              /\ DaysSinceAccess(memories[id], now) >= 1
                    => memories'[id].confidence <= memories[id].confidence
              /\ DaysSinceAccess(memories[id], now) < 1
                    => memories'[id] = memories[id] /\ index'[id] = index[id]]_vars

\* C8: in a non-dry-run pass a record whose new confidence is <= the floor and
\* more than 0.001 away from the old one becomes archived, and a pass changes
\* nothing of a record that is already archived
C8_ArchivedByDecayAndTerminal ==
    [][(last'.op = "decay" /\ ~last'.dry) =>
          \A id \in Ids :
              LET m == memories[id]
              IN  /\ ( /\ Decays(m, now)
                       /\ AtFloor(m, now, min_confidence)
                       /\ Abs(min_confidence - m.confidence) > DECAY_EPS )
                        => memories'[id].status = "archived"
                  /\ m.status = "archived"
                        => memories'[id] = m /\ index'[id] = index[id]]_vars

\* a non-dry-run pass has just run over a record an earlier pass archived
C8_Witness ==
    /\ last.op = "decay" /\ ~last.dry
    /\ stats.processed = 1 /\ stats.unchanged = 1
    /\ \E id \in Ids : /\ memories[id].status = "archived"
                       /\ DaysSinceAccess(memories[id], now) >= 1

\* the decay product as C9 states it: ratio = positive / access_count, and 0 when
\* access_count = 0, so that the multiplier is 0.5 + 0.5 * ratio in every case
C9_Num(m, t) ==
    LET base == Pow(99, DaysSinceAccess(m, t))
    IN  IF m.access_count = 0 THEN m.confidence * base
        ELSE m.confidence * base * (m.access_count + m.positive_reinforcement)

C9_Den(m, t) ==
    LET base == Pow(100, DaysSinceAccess(m, t))
    IN  IF m.access_count = 0 THEN 2 * base
        ELSE 2 * base * m.access_count

\* C9: for a record decay applies to, the pass stores
\* max(floor, confidence * 0.99^d * (0.5 + 0.5 * ratio)) rounded to a thousandth when
\* that value is more than 0.001 away from the old confidence, with ratio =
\* positive_reinforcement / access_count, taken as 0 when access_count = 0
C9_DecayFormula ==
    [][(last'.op = "decay" /\ ~last'.dry) =>
          \A id \in Ids :
              LET m == memories[id]
                  n == C9_Num(m, now)
                  d == C9_Den(m, now)
                  c == memories'[id].confidence
              IN  Decays(m, now) =>
                    /\ (n <= min_confidence * d /\ m.confidence - min_confidence > DECAY_EPS)
                          => c = min_confidence
                    /\ (n > min_confidence * d /\ n < (m.confidence - DECAY_EPS) * d)
                          => (2 * c * d - 2 * n <= d /\ 2 * n - 2 * c * d <= d)]_vars

\* C10: a record whose status is not active never becomes active again, and a
\* select returns only records whose status is active; so once a record is not
\* active no later select returns it
C10_InactiveNeverSelected ==
    [][ /\ \A id \in Ids : memories[id].status # "active" => memories'[id].status # "active"
        /\ last'.op = "select" =>
              \A id \in selected' : memories'[id].status = "active" ]_vars

\* a select has just left out a record that passes both the confidence gate and
\* the ratio gate and is not active
C10_Witness ==
    /\ last.op = "select"
    /\ \E id \in Ids :
          /\ memories[id].status # "active"
          /\ memories[id].confidence >= 800
          /\ memories[id].positive_reinforcement >= 1
          /\ memories[id].negative_reinforcement = 0
          /\ id \notin selected

\* C11: a select returns a record if and only if its status is active, its
\* confidence is >= 0.8 and its positive ratio positive / (positive + negative),
\* taken as 0.5 when both counts are zero, is >= 0.7; so a record with no
\* feedback is never returned, and a record with confidence 0.75, positive 8 and
\* negative 1 is not returned
C11_SelectedIffAllThreeGates ==
    last.op = "select" =>
        \A id \in Ids :
            LET m == memories[id]
                p == m.positive_reinforcement
                n == m.negative_reinforcement
                ratio_ok == IF p + n = 0 THEN 5 >= 7 ELSE 10 * p >= 7 * (p + n)
            IN  /\ id \in selected <=>
                      (m.status = "active" /\ m.confidence >= 800 /\ ratio_ok)
                /\ p + n = 0 => id \notin selected
                /\ (m.confidence = 750 /\ p = 8 /\ n = 1) => id \notin selected

\* a select has just left out an active record with confidence 0.75, positive 8
\* and negative 1, whose ratio 8/9 passes the ratio gate
C11_Witness ==
    /\ last.op = "select"
    /\ \E id \in Ids :
          /\ memories[id].status = "active"
          /\ memories[id].confidence = 750
          /\ memories[id].positive_reinforcement = 8
          /\ memories[id].negative_reinforcement = 1
          /\ id \notin selected

\* the entries of the index, over the global list and every project bucket
AllEntries(ix) ==
    {ix.global[i] : i \in 1..Len(ix.global)}
        \cup UNION {{ix.projects[k][i] : i \in 1..Len(ix.projects[k])} :
                       k \in 1..Len(ix.projects)}

C28_AdjustTracksAccess ==
    [][(last'.op = "adjust" /\ last'.ok) =>
          /\ memories'[last'.id].last_accessed = now
          /\ memories'[last'.id].access_count = memories[last'.id].access_count + 1]_vars

\* a superseded adjust with an explicit delta, the second access of the record,
\* made after the clock has moved
C28_Witness ==
    /\ last.op = "adjust"
    /\ last.ok
    /\ last.outcome = "superseded"
    /\ last.delta # 0
    /\ now >= 1
    /\ memories[last.id].last_accessed = now
    /\ memories[last.id].access_count = 2

-----------------------------------------------------------------------------
(* Properties of feedback processing *)

\* a log entry with a timestamp that names a record of the store
WellFormed(e) == e.timestamp > 0 /\ e.memory_id \in Ids

C12_WatermarkAdvancesPastFailures ==
    [][(last'.op = "feedback" /\ log' = log) =>
          LET unconsumed == {i \in 1..Len(log) :
                                watermark <= 0 \/ log[i].timestamp > watermark}
              bad == {i \in unconsumed :
                         log[i].memory_id \notin Ids \/ i \in last'.throws}
          IN  /\ unconsumed # {} =>
                    /\ \A i \in unconsumed : log[i].timestamp <= watermark'
                    /\ \E i \in unconsumed : log[i].timestamp = watermark'
                    /\ fbstats'.errors = Cardinality(bad)
              /\ \A i \in 1..Len(log) : failed[i] > 0 => applied'[i] = applied[i]]_vars

\* the first two parts of C12 alone: the watermark and the error count of a run
C12_WatermarkIsMaxTimestamp ==
    [][(last'.op = "feedback" /\ log' = log) =>
          LET unconsumed == {i \in 1..Len(log) :
                                watermark <= 0 \/ log[i].timestamp > watermark}
              bad == {i \in unconsumed :
                         log[i].memory_id \notin Ids \/ i \in last'.throws}
          IN  unconsumed # {} =>
                    /\ \A i \in unconsumed : log[i].timestamp <= watermark'
                    /\ \E i \in unconsumed : log[i].timestamp = watermark'
                    /\ fbstats'.errors = Cardinality(bad)]_vars

-----------------------------------------------------------------------------
(* Properties of the document *)

\* the last call was an add_to_claude_md that wrote the document
Added == docop.op = "add" /\ ~docop.dry

\* the text add_to_claude_md read: the file, or the one it created
ContentRead == IF docop.input = NoFile
               THEN <<Heading(1, "CLAUDE.md"), Blank, Blank>>
               ELSE docop.input

\* where the section with this title ends: the position of the first heading of
\* at most 2 # after the section's first heading, or one past the last line
SectionEnd(d, name) ==
    LET first == CHOOSE i \in 1..Len(d) :
                    IsHeader(d[i], name) /\ \A j \in 1..(i - 1) : ~IsHeader(d[j], name)
        stops == {i \in (first + 1)..Len(d) : d[i].k = "h" /\ d[i].level <= 2}
    IN  IF stops = {} THEN Len(d) + 1
        ELSE CHOOSE i \in stops : \A j \in stops : i <= j

\* an empty line or nothing
Pads == {<<>>, <<Blank>>}

\* the titles of type_order that come before this one and have a section in d
EarlierSections(d, name) ==
    {i \in 1..(OrderOf(name) - 1) : section_exists(d, type_order[i])}

\* C14: when the target section exists, the document written is the one read with
\* the formatted entry put in once, immediately before the next heading whose
\* level is <= the section's level 2, or at the end when there is no such
\* heading; every line of the original is there, unchanged and in the same order
C14_InsertedBeforeNextHeading ==
    (Added /\ section_exists(ContentRead, SectionOf(docop.type))) =>
        LET d == ContentRead
            at == SectionEnd(d, SectionOf(docop.type))
        IN  \E a \in Pads, b \in Pads :
                doc = SubSeq(d, 1, at - 1) \o a \o format_memory_entry(docop.title)
                          \o b \o SubSeq(d, at, Len(d))

\* C15: when the section mapped from the type does not exist, its title is in
\* type_order and an earlier title of type_order has a section, the document
\* written is the one read with a new "## title" section holding the entry put
\* in immediately after the nearest such preceding section
C15_CreatedAfterPrecedingSection ==
    ( /\ Added
      /\ ~section_exists(ContentRead, SectionOf(docop.type))
      /\ EarlierSections(ContentRead, SectionOf(docop.type)) # {} ) =>
        LET d == ContentRead
            name == SectionOf(docop.type)
            prev == CHOOSE i \in EarlierSections(d, name) :
                        \A j \in EarlierSections(d, name) : j <= i
            at == SectionEnd(d, type_order[prev])
        IN  \E a \in Pads, b \in Pads, c \in Pads :
                doc = SubSeq(d, 1, at - 1) \o a \o <<Heading(2, name)>> \o b
                          \o format_memory_entry(docop.title) \o c \o SubSeq(d, at, Len(d))

\* C16: when the section mapped from the type does not exist and either no
\* earlier title of type_order has a section or the title is not in type_order
\* ("General"), the document written ends with a new "## title" section holding
\* the entry, after the text read less its trailing empty lines
C16_AppendedAtEnd ==
    ( /\ Added
      /\ ~section_exists(ContentRead, SectionOf(docop.type))
      /\ EarlierSections(ContentRead, SectionOf(docop.type)) = {} ) =>
        LET d == ContentRead
            name == SectionOf(docop.type)
            tail == <<Heading(2, name), Blank>> \o format_memory_entry(docop.title)
                        \o <<Blank>>
            n == Len(doc) - Len(tail)
        IN  /\ n >= 1
            /\ SubSeq(doc, n + 1, Len(doc)) = tail
            /\ doc[n] = Blank
            /\ \E k \in 0..Len(d) :
                  /\ SubSeq(doc, 1, n - 1) = SubSeq(d, 1, k)
                  /\ \A i \in (k + 1)..Len(d) : d[i] = Blank
            /\ Cardinality({i \in 1..Len(doc) : doc[i] = Heading(2, name)}) = 1

\* a preference entry has just been added to a document whose only section is
\* "Patterns & Conventions": "## Preferences" is the last section of the document
C16_Witness ==
    /\ Added /\ docop.type = "preference"
    /\ section_exists(docop.input, "Patterns & Conventions")
    /\ ~section_exists(docop.input, "Workflows")
    /\ \E i \in 1..Len(doc) :
          /\ doc[i] = Heading(2, "Preferences")
          /\ \A j \in (i + 1)..Len(doc) : doc[j].k # "h"
          /\ \E j \in (i + 1)..Len(doc) : doc[j] = Bullet(docop.title)

\* C18: for a document with no managed-section marker, what parsing keeps of the
\* document and serialization writes back is the document itself, line for line
C18_RoundTrip ==
    docop.op = "parse" => docop.manual = docop.input

\* C17: duplicate_status is exact whenever the record's title is identical to the
\* title of a title bullet of the document, whatever the title; and it is
\* similar only with an existing title that shares a keyword with the record's
C17_IdenticalTitlesExact ==
    dup.op = "check" =>
        /\ (\E i \in 1..Len(dup.bullets) : dup.bullets[i] = dup.title)
              => dup.status = "exact"
        /\ dup.status = "similar"
              => extract_keywords(dup.title) \cap extract_keywords(dup.match) # {}

\* the second part of C17 alone
C17_SimilarSharesKeyword ==
    (dup.op = "check" /\ dup.status = "similar")
        => extract_keywords(dup.title) \cap extract_keywords(dup.match) # {}

-----------------------------------------------------------------------------
(* Properties of the promotion workflow *)

EventsOf(lg, id) == {i \in 1..Len(lg) : lg[i].id = id}

OutcomeOf(decision) ==
    CASE decision \in {"add", "develop-yes"} -> "added"
      [] decision = "skip" -> "denied"
      [] OTHER -> "kept_observing"

\* the decision on id is recorded by exactly one archive event and one log entry
RecordedOnce(id, outcome) ==
    /\ Cardinality(EventsOf(archive, id)) = 1
    /\ Cardinality(EventsOf(decisions, id)) = 1
    /\ \A i \in EventsOf(archive, id) : archive[i].decision = outcome
    /\ \A i \in EventsOf(decisions, id) : decisions[i].decision = outcome

Untouched(id) ==
    /\ EventsOf(archive, id) = {}
    /\ EventsOf(decisions, id) = {}
    /\ \A i \in 1..Len(doc) : doc[i] # Bullet(id)

QuitAt == wf.pc = "done" /\ wf.quit /\ ~wf.dry

\* C19 (supporting): after a quit at candidate k, each add, skip or keep decision
\* on an earlier candidate is recorded by exactly one archive event and one log
\* entry, the candidates from k on are untouched, and no decided record is among
\* the candidates of a run
C19_DecisionsRecordedOnce ==
    /\ QuitAt =>
          /\ \A i \in 1..(wf.pos - 1) :
                wf.taken[i] \in {"add", "develop-yes", "skip", "keep"}
                   => RecordedOnce(wf.queue[i], OutcomeOf(wf.taken[i]))
          /\ \A i \in wf.pos..Len(wf.queue) : Untouched(wf.queue[i])
    /\ wf.pc = "review" =>
          \A i \in wf.pos..Len(wf.queue) : EventsOf(archive, wf.queue[i]) = {}

C19_DecisionsRecordedOnce_Witness ==
    /\ QuitAt
    /\ wf.runs = 2
    /\ wf.pos = 2
    /\ wf.taken = <<"keep">>
    /\ Len(archive) = 2

\* C19: after a quit at candidate k, every add decision on candidates 1..k-1 is
\* durably applied: the entry is in the document, and the record is archived and
\* logged as added exactly once
C19_EarlierAddsDurablyApplied ==
    QuitAt =>
       \A i \in 1..(wf.pos - 1) :
          wf.taken[i] = "add"
             => /\ \E j \in 1..Len(doc) : doc[j] = Bullet(wf.queue[i])
                /\ RecordedOnce(wf.queue[i], "added")

\* C20: when the merge of a candidate fails, the candidate is neither archived
\* nor logged as added, it is a candidate of the next run, and the run goes on
\* to the remaining candidates
C20_MergeFailureAbortsOnlyThatCandidate ==
    wf.merge_failed =>
       /\ Untouched(wf.queue[wf.pos])
       /\ \E i \in 1..Len(get_promotion_candidates(archive)) :
             get_promotion_candidates(archive)[i] = wf.queue[wf.pos]
       /\ wf.pc # "aborted"

\* C20 (supporting): the candidate whose merge failed is neither archived nor
\* logged, and is a candidate of the next run
C20_FailedCandidateStaysEligible ==
    wf.merge_failed =>
       /\ EventsOf(archive, wf.queue[wf.pos]) = {}
       /\ EventsOf(decisions, wf.queue[wf.pos]) = {}
       /\ \E i \in 1..Len(get_promotion_candidates(archive)) :
             get_promotion_candidates(archive)[i] = wf.queue[wf.pos]

C20_FailedCandidateStaysEligible_Witness ==
    /\ wf.merge_failed
    /\ wf.pos = 1
    /\ Len(wf.queue) = 3

-----------------------------------------------------------------------------
(* Properties of the store under failures *)

FailedIds == {p[1] : p \in {q \in last.throws : q[2] \in Faults}}

IndexInSync == \A id \in IdxIds : index[id] = EntryOf(memories[id])

\* the record and its index entry are what a pass leaves of a record it decayed
\* with no failure anywhere
DecayedAlone(id) ==
    \E fp \in BOOLEAN :
       /\ memories'[id] = ProcessMemory(memories[id], now, min_confidence, FALSE, fp)
       /\ index'[id].confidence = memories'[id].confidence

\* C21: in a decay pass in which one record fails, the pass goes on: it returns,
\* and every other record is decayed and persisted as if the failing record
\* were absent
C21_PassContinuesPastFailure ==
    [][(last'.op = "decay" /\ ~last'.dry /\ FailedIds' # {})
          => /\ last'.ok
             /\ \A id \in IdxIds \ FailedIds' : DecayedAlone(id)]_vars

\* C21 (supporting): a record load_memory returns nothing for is passed over and
\* the other records are decayed and persisted
C21_AbsentRecordPassedOver ==
    [][(last'.op = "decay" /\ ~last'.dry /\ FailedIds' # {}
          /\ \A q \in last'.throws : q[2] \in {"absent", "stale"})
          => /\ last'.ok
             /\ \A id \in IdxIds \ FailedIds' : DecayedAlone(id)]_vars

C25_DryRunPersistsNothing ==
    [][(last'.op = "decay" /\ last'.dry) => (memories' = memories /\ index' = index)]_vars

\* a dry run that reported a record as decayed
C25_Witness ==
    /\ last.op = "decay"
    /\ last.dry
    /\ last.ok
    /\ stats.decayed >= 1

\* C23: adjust on an unknown id returns a failure and changes no record and no
\* index entry; in feedback processing an entry naming an unknown id is counted
\* as an error, creates no record, and the entries after it are still applied
C23_UnknownIdFailsAndBatchContinues ==
    [][/\ (last'.op = "adjust" /\ last'.id \notin DOMAIN memories) =>
             /\ ~last'.ok
             /\ memories' = memories
             /\ index' = index
       /\ (last'.op = "feedback" /\ log' = log) =>
             LET unconsumed == Pending(log, watermark)
                 unknown == {i \in unconsumed : log[i].memory_id \notin DOMAIN memories}
             IN  /\ DOMAIN memories' = DOMAIN memories
                 /\ DOMAIN index' = DOMAIN index
                 /\ fbstats'.errors >= Cardinality(unknown)
                 /\ fbstats'.errors + fbstats'.processed = Cardinality(unconsumed)
                 /\ \A i \in unknown : failed'[i] = failed[i] + 1 /\ applied'[i] = applied[i]
                 /\ \A i \in unconsumed \ unknown :
                       i \notin last'.throws => applied'[i] = applied[i] + 1]_vars

\* a run has just counted an entry naming an unknown id as an error and applied
\* the entry after it
C23_Witness ==
    /\ last.op = "feedback"
    /\ Len(log) = 2
    /\ log[1].memory_id = UnknownId
    /\ failed[1] = 1
    /\ applied[2] = 1
    /\ fbstats = [processed |-> 1, errors |-> 1]

\* C33: no feedback entry is applied twice, also when a run is stopped after
\* it applied some entries and before it wrote the watermark: the next run
\* does not apply those entries again
C33_InterruptedRunNotReapplied ==
    \A i \in 1..Len(log) : log[i].timestamp > 0 => applied[i] <= 1

\* C34: the persisted watermark never decreases, whatever is appended to the
\* log (entries older than the watermark or without a timestamp included) and
\* whether runs complete or are stopped, and a run that finds no unconsumed
\* entry leaves it as it was
C34_WatermarkNeverDecreases ==
    [][/\ watermark' >= watermark
       /\ (/\ last'.op = "feedback"
           /\ \A i \in 1..Len(log) : watermark > 0 /\ log[i].timestamp <= watermark)
             => watermark' = watermark]_vars

\* a run has just found nothing to consume in a log whose last entries are one
\* older than the watermark and one without a timestamp, both never applied
C34_Witness ==
    /\ last.op = "feedback"
    /\ watermark = MaxTs
    /\ fbstats = NoFbStats
    /\ \E i, j \in 1..Len(log) :
          /\ i < j
          /\ log[i].timestamp = MaxTs /\ applied[i] = 1
          /\ log[j].timestamp < MaxTs /\ applied[j] = 0 /\ failed[j] = 0

-----------------------------------------------------------------------------
(* Properties of the feedback log as lines *)

\* what the claim asks of a run over the log: the run returns, every malformed
\* line is counted as an error, no comment or blank line is counted, and every
\* unconsumed entry naming a record is applied unless adjust raised on it
RunTolerates(malformed) ==
    LET unconsumed == {i \in 1..Len(log) :
                          /\ log[i].kind = "entry"
                          /\ watermark <= 0 \/ log[i].timestamp > watermark}
    IN  /\ last'.ok
        /\ \A i \in malformed : failed'[i] = failed[i] + 1 /\ applied'[i] = applied[i]
        /\ fbstats'.errors >= Cardinality(malformed)
        /\ \A i \in 1..Len(log) :
              log[i].kind \in {"comment", "blank"}
                 => failed'[i] = failed[i] /\ applied'[i] = applied[i]
        /\ \A i \in unconsumed :
              (log[i].memory_id \in Ids /\ i \notin last'.throws)
                 => applied'[i] = applied[i] + 1

\* C24: a run over a log with malformed lines (lines that are not JSON, or JSON
\* that is not an entry object), comments and blank lines returns, counts each
\* malformed line as an error, counts no comment or blank line, and applies
\* every well-formed unconsumed entry
C24_MalformedLinesNeverAbort ==
    [][(last'.op = "feedback" /\ log' = log) =>
          RunTolerates({i \in 1..Len(log) : log[i].kind \in {"garbage", "scalar"}})]_vars

\* C24 (supporting): the same on the logs whose malformed lines are all lines
\* json.loads rejects
C24_UndecodableLinesSkipped ==
    [][(last'.op = "feedback" /\ log' = log
          /\ \A i \in 1..Len(log) : log[i].kind # "scalar") =>
          RunTolerates({i \in 1..Len(log) : log[i].kind = "garbage"})]_vars

C24_UndecodableLinesSkipped_Witness ==
    /\ last.op = "feedback"
    /\ Len(log) = 2
    /\ log[1].kind = "garbage"
    /\ log[2].kind = "entry"
    /\ failed[1] = 1
    /\ applied[2] = 1

\* promote-workflow.py lines 558, 660 and 805: what the caller of a run that
\* ended gets, the exit status of main and the results run_promotion_workflow
\* returned
Observed(w) == <<0, w.results>>

\* C26 (supporting): a run with zero candidates ends with exit status 0 and
\* results of all zeros
C26_ZeroCandidatesObserved ==
    (wf.pc = "done" /\ wf.queue = <<>>) => Observed(wf) = <<0, NoResults>>

C26_ZeroCandidatesObserved_Witness ==
    /\ wf.pc = "done"
    /\ wf.queue = <<>>
    /\ wf.runs = 2

\* C26: what the caller gets from a run the user quit differs from what it gets
\* from a run with zero candidates
C26_QuitDistinguishable ==
    (wf.pc = "done" /\ wf.quit) => Observed(wf) # <<0, NoResults>>

\* the positions of the ## and ### heading lines of a document, in order
HeadingPositions(d) == {i \in 1..Len(d) : IsSectionHeading(d[i])}

\* the k-th smallest position of a set of positions
RECURSIVE KthOf(_, _)
KthOf(ps, k) ==
    LET first == CHOOSE i \in ps : \A j \in ps : i <= j
    IN  IF k = 1 THEN first ELSE KthOf(ps \ {first}, k - 1)

\* position of the first heading after line i of level at most that of line i,
\* one past the end when there is none
SectionStop(d, i) ==
    LET stops == {j \in (i + 1)..Len(d) : d[j].k = "h" /\ d[j].level <= d[i].level}
    IN  IF stops = {} THEN Len(d) + 1 ELSE CHOOSE j \in stops : \A x \in stops : j <= x

\* C30 (supporting): parse returns one section per ## or ### heading line, in
\* document order, under the title of that heading
C30_OneSectionPerHeading ==
    docop.op = "parse" =>
       /\ Len(docop.sections) = Cardinality(HeadingPositions(docop.input))
       /\ \A k \in 1..Len(docop.sections) :
             docop.sections[k].title
                = docop.input[KthOf(HeadingPositions(docop.input), k)].title

C30_OneSectionPerHeading_Witness ==
    /\ docop.op = "parse"
    /\ Len(docop.sections) = 2
    /\ docop.sections[1].title # docop.sections[2].title

\* C30: each section parse returns has the level of its own heading (2 or 3) and
\* as content the lines up to the next heading of level at most its own, so the
\* ### subsections of a ## section are part of that section's content
C30_SectionLevelAndContent ==
    docop.op = "parse" =>
       /\ Len(docop.sections) = Cardinality(HeadingPositions(docop.input))
       /\ \A k \in 1..Len(docop.sections) :
             LET i == KthOf(HeadingPositions(docop.input), k)
             IN  /\ docop.sections[k].title = docop.input[i].title
                 /\ docop.sections[k].level = docop.input[i].level
                 /\ docop.sections[k].content
                       = Strip(SubSeq(docop.input, i + 1, SectionStop(docop.input, i) - 1))

\* C27: a promote_memories_to_claude_md call that follows a call that wrote the
\* document, with the store unchanged and the document not edited in between,
\* leaves the document as the first call left it
C27_SecondRunLeavesDocument ==
    [][(/\ docop.op = "sync"
        /\ ~docop.dry
        /\ docop'.op = "sync"
        /\ docop'.n = docop.n + 1
        /\ ~docop'.dry
        /\ memories' = memories)
          => doc' = doc]_vars

\* C27 (supporting): every call writes the same memory-sync region for the same
\* store, at the same place of the document
C27_SyncRegionStable ==
    [][(/\ docop.op = "sync"
        /\ ~docop.dry
        /\ docop'.op = "sync"
        /\ ~docop'.dry
        /\ Len(Promoted(memories)) > 0)
          => LET n == FirstOfKind(doc, "end", 1)
             IN  SubSeq(doc', 1, n) = SubSeq(doc, 1, n)]_vars

C27_SyncRegionStable_Witness ==
    /\ docop.op = "sync"
    /\ docop.n = 3
    /\ ~docop.dry
    /\ Len(docop.sections) = 2
    /\ Len(doc) > 30

\* Jaccard similarity of two keyword sets strictly greater than 0.7
JaccardAbove70(a, b) ==
    10 * Cardinality(a \cap b) > 7 * Cardinality(a \cup b)

\* C29: an existing title equal to the record's title gives exact wherever it is
\* in the document; with no such title, the status is similar exactly when some
\* existing title has keyword Jaccard similarity > 0.7 with the record's title,
\* the title reported is the first such title in document order, and the status
\* is new otherwise
C29_FirstSimilarTitleWins ==
    dup.op = "check" =>
       LET existing == extract_memory_titles(dup.bullets)
           close == {i \in 1..Len(existing) :
                        JaccardAbove70(extract_keywords(dup.title),
                                       extract_keywords(existing[i]))}
       IN  IF \E i \in 1..Len(existing) : existing[i] = dup.title
           THEN dup.status = "exact" /\ dup.match = dup.title
           ELSE /\ dup.status = "similar" <=> close # {}
                /\ dup.status # "similar" => (dup.status = "new" /\ dup.match = <<>>)
                /\ close # {} =>
                      \E i \in close :
                         /\ \A j \in close : i <= j
                         /\ dup.match = existing[i]

\* the first title of the document shares three of the record's four keywords
\* and is reported, though the second has the record's keywords exactly
C29_Witness ==
    /\ dup.op = "check"
    /\ dup.status = "similar"
    /\ Len(dup.bullets) = 2
    /\ dup.match = dup.bullets[1]
    /\ Cardinality(extract_keywords(dup.title)) = 4
    /\ Cardinality(extract_keywords(dup.bullets[1])) = 3
    /\ extract_keywords(dup.bullets[2]) = extract_keywords(dup.title)

\* the positions in type_order of the canonical section headings of d, in
\* document order
RECURSIVE CanonicalOrder(_)
CanonicalOrder(d) ==
    IF Len(d) = 0 THEN <<>>
    ELSE (IF d[1].k = "h" /\ d[1].level = 2 /\ OrderOf(d[1].title) > 0
          THEN <<OrderOf(d[1].title)>> ELSE <<>>)
            \o CanonicalOrder(SubSeq(d, 2, Len(d)))

\* C37: starting from a document with no canonical section, after any records of
\* any types added in any order, the canonical sections of the document stand in
\* the order Preferences, Patterns & Conventions, Workflows, Project-Specific,
\* Learned Corrections, Avoid
C37_SectionsInCanonicalOrder ==
    LET order == CanonicalOrder(doc)
    IN  \A i, j \in 1..Len(order) : i < j => order[i] < order[j]

\* every canonical section the document has was created by an add, as a heading
\* of two #, and no canonical title has two sections
C37_CanonicalSectionsUnique ==
    LET order == CanonicalOrder(doc)
    IN  \A i, j \in 1..Len(order) : i # j => order[i] # order[j]

C37_CanonicalSectionsUnique_Witness ==
    /\ docop.op = "add"
    /\ docop.n = MaxInserts
    /\ Len(CanonicalOrder(doc)) >= 2

-----------------------------------------------------------------------------
(* Properties of the promotion workflow and the document it writes *)

\* the title bullet of the entry stands in d under a heading "## name": no
\* heading of at most two # stands between them
EntryUnder(d, title, name) ==
    \E i, j \in 1..Len(d) :
        /\ i < j
        /\ d[i] = Heading(2, name)
        /\ d[j] = Bullet(title)
        /\ \A x \in (i + 1)..(j - 1) : ~(d[x].k = "h" /\ d[x].level <= 2)

\* C31: whenever the workflow has recorded a memory as added (archive event and
\* decision-log entry), the target document holds the memory's entry under the
\* "##" heading mapped from the memory's type; no memory is recorded as added
\* while its entry is absent from the document
C31_RecordedAddIsInDocument ==
    \A i \in 1..Len(archive) :
        archive[i].decision = "added" =>
            EntryUnder(doc, archive[i].id, SectionOf(wf.types[archive[i].id]))

\* an added record always has its archive event and its decision-log entry
\* together, and the document exists
C31_RecordedAddIsLogged ==
    /\ archive = decisions
    /\ (\E i \in 1..Len(archive) : archive[i].decision = "added") => doc # NoFile

\* the candidate the auto loop is at, its title, and whether the step just taken
\* added it to the document (written, or written and recorded)
CandidateTitle == wf.titles[wf.queue[wf.pos]]

CandidateClear ==
    \/ doc = NoFile
    \/ /\ check_duplicate(CandidateTitle, TitlesOf(doc)).status = "new"
       /\ check_overlaps(CandidateTitle, doc) = <<>>

\* C36: in auto mode a candidate is added only if, against the target document
\* as it is when the candidate is reached, duplicate_status is new and overlaps
\* is empty, or the document does not exist; a candidate passed over for
\* duplicates or overlaps is neither archived, nor logged, nor counted as added,
\* the document is left alone and the run goes on to the next candidate
C36_AutoAddsOnlyNewAndClear ==
    [][(wf.pc = "review" /\ wf' # wf) =>
          /\ ( \/ wf'.results.added # wf.results.added
               \/ doc' # doc
               \/ archive' # archive
               \/ decisions' # decisions ) => CandidateClear
          /\ ~CandidateClear =>
                /\ UNCHANGED <<doc, archive, decisions>>
                /\ wf'.results = wf.results
                /\ wf'.pos = wf.pos + 1]_vars

\* a real run on a document that did not exist: the first candidate was added
\* and the second passed over, for the entry the run itself had just written
C36_Witness ==
    /\ wf.runs = 1
    /\ ~wf.dry
    /\ Len(wf.taken) >= 2
    /\ wf.taken[1] = "added"
    /\ wf.taken[2] = "skipped"
    /\ wf.results.added = 1
    /\ Len(archive) = 1
    /\ Len(TitlesOf(doc)) = 1
    /\ check_overlaps(wf.titles[wf.queue[2]], doc) # <<>>
    /\ check_duplicate(wf.titles[wf.queue[2]], TitlesOf(doc)).status = "new"

\* C32: insertion followed by detection is closed: once add_to_claude_md has
\* written a record with a non-empty title, duplicate_status of that record
\* against the document written is exact
C32_InsertedIsDetectedExact ==
    [][(wf.pc = "review" /\ ~wf.dry /\ wf'.taken = Append(wf.taken, "added")) =>
          check_duplicate(CandidateTitle, TitlesOf(doc')).status = "exact"]_vars

\* the same for a title with no star whose entry is in the document written
C32_PlainTitleDetectedExact ==
    [][(/\ wf.pc = "review" /\ ~wf.dry /\ wf'.taken = Append(wf.taken, "added")
        /\ \A k \in 1..Len(CandidateTitle) : CandidateTitle[k] # "*"
        /\ \E j \in 1..Len(doc') : doc'[j] = Bullet(CandidateTitle)) =>
          check_duplicate(CandidateTitle, TitlesOf(doc')).status = "exact"]_vars

\* the number of candidates a real auto run over the queue adds, from candidate
\* i on and document d
RECURSIVE AutoAdded(_, _, _, _)
AutoAdded(d, queue, i, w) ==
    IF i > Len(queue) THEN 0
    ELSE LET title == w.titles[queue[i]]
         IN  IF AutoSkips(title, d)
             THEN AutoAdded(d, queue, i + 1, w)
             ELSE 1 + AutoAdded(NewContent(d, w.types[queue[i]], title), queue, i + 1, w)

\* C39: a dry run has no side effect (the document is neither created nor
\* written, no archive event is recorded, no decision-log entry appended) and
\* the counts it returns are those of the corresponding real run
C39_DryRunCountsOfRealRun ==
    /\ (wf.pc = "done" /\ wf.dry) =>
          wf.results = [NoResults EXCEPT !.added = AutoAdded(doc, wf.queue, 1, wf)]
    /\ (wf.pc \in {"review", "done"} /\ wf.dry /\ wf.runs = 1) =>
          (archive = <<>> /\ decisions = <<>>)

\* the first part of C39 alone: no step of a dry run changes the document, the
\* archive or the decision log
C39_DryRunWritesNothing ==
    [][(wf.dry /\ wf.pc = "review") => UNCHANGED <<doc, archive, decisions>>]_vars

====
